---- MODULE Spec2Model ----
(***************************************************************************)
(* Client-side runtime of the site: the lazy module loader                 *)
(* (js/utils/lazyLoader.js), the global state manager (StateManager) and   *)
(* the event manager (js/utils/events.js).                                 *)
(*                                                                         *)
(* The loader is asynchronous: a loadModule call runs synchronously up to  *)
(* its await, and the continuation after the await runs when the import    *)
(* promise settles.  Promises are modelled by what a caller can observe of *)
(* them: the promise returned by an async function that returns another    *)
(* promise adopts that promise's outcome, a rejection included.            *)
(***************************************************************************)
EXTENDS Integers, Sequences, FiniteSets, TLC

\* CONFIG.PERFORMANCE.MAX_RETRIES
MAX_RETRIES == 3

\* Bound on the number of loadModule/retryModule calls of one run.
MaxCalls == 4

\* Bound on the number of route/viewport/interaction loads of one run.
MaxBatches == 2

\* Bound on the number of loadModule calls of a run that preloads the critical
\* modules.
MaxPreloadCalls == 6

\* Bound on the number of on/once calls of one run.
MaxRegistrations == 3

\* Bound on the number of emit calls of a run that has listeners.
MaxDispatches == 1

\* Bound on the number of emit calls of a run that fills the history.
MaxEmits == 102

\* Bound on the length of the middleware chain.
MaxMiddleware == 2

\* Bound on the number of distinct <<key, callback>> subscriptions of one run.
MaxSubscriptions == 3

\* The clock stops here.
MaxTime == 4

\* Calls made to one debounced or throttled function.
MaxBurst == 3

\* Emits of one event while once-handlers are registered for it.
MaxRepeats == 2


\* Timers of prefetchForPage pending at one time.
MaxPrefetches == 2

VARIABLES
  loadedModules,   \* Map name -> module contents
  pendingLoads,    \* Map name -> import promise (index into imports)
  failedLoads,     \* Set of names
  retryCount,      \* Map name -> number of failed attempts
  imports,         \* the promises dynamicImport returned, in creation order
  calls,           \* the promises loadModule/retryModule returned, in call order
  batches          \* the promises of the route/viewport/interaction loads

loaderVars == <<loadedModules, pendingLoads, failedLoads, retryCount, imports, calls, batches>>

VARIABLES
  state,           \* StateManager.state: field name -> value
  subscribers,     \* Map key -> Set of callbacks, in insertion order
  middleware,      \* the middleware chain, in registration order
  localStorage,    \* the browser's localStorage: item name -> text
  lastOp,          \* the StateManager call that ran last and how it ended
  log              \* what that call did, in execution order

storeVars == <<state, subscribers, middleware, localStorage, lastOp, log>>

VARIABLES
  listeners,       \* EventManager.listeners: Map eventName -> Set of listenerData
  eventHistory,    \* EventManager.eventHistory, most recent entry first
  eventTargets,    \* the DOM's listener lists: <<target, eventName>> -> functions
  registrations,   \* the on/once calls made so far, in call order
  invoked,         \* Map function -> number of times the DOM called it
  emitted,         \* number of emit calls made so far (the clock of Date.now())
  busOp            \* the EventManager call that ran last and what it returned

eventVars == <<listeners, eventHistory, eventTargets, registrations, invoked, emitted, busOp>>

VARIABLES
  clock,           \* Date.now(), the time that timers are measured on
  items,           \* the localStorage entries that StorageUtils writes: key -> text
  storageOp,       \* the last StorageUtils call and what it returned
  debounced,       \* the function PerformanceUtils.debounce returned, and its calls
  throttled,       \* the function PerformanceUtils.throttle returned, and its calls
  cache,           \* the Map inside the object PerformanceUtils.createCache returned
  cacheOp          \* the last cache call and what it returned

utilVars == <<clock, items, storageOp, debounced, throttled, cache, cacheOp>>

VARIABLES
  window,          \* the browser window: innerWidth, innerHeight, location.pathname
  app,             \* the OudarAvocatsApp singleton and its init() calls
  prefetches       \* the timers prefetchForPage has set, with their pageName

appVars == <<window, app, prefetches>>

vars == <<loaderVars, storeVars, eventVars, utilVars, appVars>>

-----------------------------------------------------------------------------
(* JavaScript Map helpers: a Map is a function whose domain is its key set. *)

EmptyMap == [k \in {} |-> 0]

MapHas(m, k) == k \in DOMAIN m

MapSet(m, k, v) == [x \in (DOMAIN m) \cup {k} |-> IF x = k THEN v ELSE m[x]]

MapDelete(m, k) == [x \in (DOMAIN m) \ {k} |-> m[x]]

-----------------------------------------------------------------------------
(* The loader's static tables.                                             *)

\* Keys of dynamicImport's moduleMap that the model exercises.
moduleMap == {"forms", "contact", "drawer", "darkMode", "language", "header", "loader"}

\* A name that is not a key of moduleMap: dynamicImport throws for it.
UnknownModule == "ghost"

ModuleNames == moduleMap \cup {UnknownModule}

\* The names the direct loadModule/retryModule calls of the model are made with.
DirectNames == {"forms", UnknownModule}

\* The name the direct calls are made with when every import fails.
RejectNames == {"forms"}

\* What a successful import of name yields (the module namespace object).
ModuleOf(name) == [module |-> name]

\* preloadCriticalModules: criticalModules
criticalModules == <<"darkMode", "language", "header", "loader">>

\* The name the direct calls are made with next to preloadCriticalModules.
PreloadNames == {"darkMode"}

\* loadPageSpecificModules: pageModules[currentPage] || []
pageModules(currentPage) ==
  CASE currentPage = "contact.html" -> <<"forms", "contact">>
    [] currentPage = "consultation.html" -> <<"forms">>
    [] OTHER -> <<>>

Pages == {"contact.html", "consultation.html", "mentions-legales.html"}

\* loadOnInteraction: interactionModules[interaction] || []
interactionModules(interaction) ==
  CASE interaction = "form-focus" -> <<"forms">>
    [] interaction = "drawer-open" -> <<"drawer">>
    [] OTHER -> <<>>

Interactions == {"form-focus", "drawer-open", "unknown-trigger"}

-----------------------------------------------------------------------------
(* The loader's mutable fields as one record, so that an operation that    *)
(* calls loadModule several times in one synchronous run can thread them.  *)

LoaderState ==
  [loadedModules |-> loadedModules, pendingLoads |-> pendingLoads,
   failedLoads |-> failedLoads, retryCount |-> retryCount,
   imports |-> imports, calls |-> calls]

\* this.retryCount.get(moduleName) || 0
Retries(s, moduleName) ==
  IF MapHas(s.retryCount, moduleName) THEN s.retryCount[moduleName] ELSE 0

TooManyRetries_OffByOne(retries) == retries > MAX_RETRIES

\* retries >= CONFIG.PERFORMANCE.MAX_RETRIES
TooManyRetries(retries) == retries >= MAX_RETRIES

\* dynamicImport(moduleName): the promise it returns.  importer says whether
\* moduleMap has an importer for the name (it is invoked exactly then); for
\* an unknown name the promise can only reject.
dynamicImport(moduleName) ==
  [name |-> moduleName, importer |-> moduleName \in moduleMap, status |-> "inflight"]

\* The promise an async call returned: kind is the branch it took, imp the
\* import promise it awaits or adopts (0: none), result what it settles with.
Call(moduleName, kind, imp, result) ==
  [name |-> moduleName, kind |-> kind, imp |-> imp, result |-> result]

\* The promise loadModule returns from its pendingLoads branch.
JoinedCall(s, moduleName) ==
  Call(moduleName, "joined", s.pendingLoads[moduleName], "pending")

loadModule_ConditionFirst(s, moduleName, condition) ==
  IF ~condition
    THEN [s EXCEPT !.calls = Append(@, Call(moduleName, "condition", 0, "null"))]
  ELSE IF MapHas(s.loadedModules, moduleName)
    THEN [s EXCEPT !.calls = Append(@, Call(moduleName, "cached", 0, "module"))]
  ELSE IF MapHas(s.pendingLoads, moduleName)
    THEN [s EXCEPT !.calls = Append(@, JoinedCall(s, moduleName))]
  ELSE IF moduleName \in s.failedLoads /\ TooManyRetries(Retries(s, moduleName))
    THEN [s EXCEPT !.calls = Append(@, Call(moduleName, "skipped", 0, "null"))]
  ELSE LET d == Len(s.imports) + 1 IN
       [s EXCEPT !.imports = Append(@, dynamicImport(moduleName)),
                 !.pendingLoads = MapSet(@, moduleName, d),
                 !.calls = Append(@, Call(moduleName, "fetch", d, "pending"))]

loadModule_ConditionRecorded(s, moduleName, condition) ==
  IF MapHas(s.loadedModules, moduleName)
    THEN [s EXCEPT !.calls = Append(@, Call(moduleName, "cached", 0, "module"))]
  ELSE IF MapHas(s.pendingLoads, moduleName)
    THEN [s EXCEPT !.calls = Append(@, JoinedCall(s, moduleName))]
  ELSE IF ~condition
    THEN [s EXCEPT !.failedLoads = @ \cup {moduleName},
                   !.calls = Append(@, Call(moduleName, "condition", 0, "null"))]
  ELSE IF moduleName \in s.failedLoads /\ TooManyRetries(Retries(s, moduleName))
    THEN [s EXCEPT !.calls = Append(@, Call(moduleName, "skipped", 0, "null"))]
  ELSE LET d == Len(s.imports) + 1 IN
       [s EXCEPT !.imports = Append(@, dynamicImport(moduleName)),
                 !.pendingLoads = MapSet(@, moduleName, d),
                 !.calls = Append(@, Call(moduleName, "fetch", d, "pending"))]

\* loadModule(moduleName, condition), up to its await.
loadModule(s, moduleName, condition) ==
  IF MapHas(s.loadedModules, moduleName)
    THEN [s EXCEPT !.calls = Append(@, Call(moduleName, "cached", 0, "module"))]
  ELSE IF MapHas(s.pendingLoads, moduleName)
    THEN [s EXCEPT !.calls = Append(@, JoinedCall(s, moduleName))]
  ELSE IF ~condition
    THEN [s EXCEPT !.calls = Append(@, Call(moduleName, "condition", 0, "null"))]
  ELSE IF moduleName \in s.failedLoads /\ TooManyRetries(Retries(s, moduleName))
    THEN [s EXCEPT !.calls = Append(@, Call(moduleName, "skipped", 0, "null"))]
  ELSE LET d == Len(s.imports) + 1 IN
       [s EXCEPT !.imports = Append(@, dynamicImport(moduleName)),
                 !.pendingLoads = MapSet(@, moduleName, d),
                 !.calls = Append(@, Call(moduleName, "fetch", d, "pending"))]

\* modules.map(module => this.loadModule(module)), in list order.
RECURSIVE loadAll(_, _)
loadAll(s, modules) ==
  IF modules = <<>> THEN s
  ELSE loadAll(loadModule(s, Head(modules), TRUE), Tail(modules))

retryModule_ResetsCount(s, moduleName) ==
  IF moduleName \notin s.failedLoads
    THEN loadModule(s, moduleName, TRUE)
  ELSE IF TooManyRetries(Retries(s, moduleName))
    THEN [s EXCEPT !.calls = Append(@, Call(moduleName, "exceeded", 0, "null"))]
  ELSE loadModule([s EXCEPT !.retryCount = MapDelete(@, moduleName)], moduleName, TRUE)

\* retryModule(moduleName)
retryModule(s, moduleName) ==
  IF moduleName \notin s.failedLoads
    THEN loadModule(s, moduleName, TRUE)
  ELSE IF TooManyRetries(Retries(s, moduleName))
    THEN [s EXCEPT !.calls = Append(@, Call(moduleName, "exceeded", 0, "null"))]
  ELSE loadModule([s EXCEPT !.failedLoads = @ \ {moduleName}], moduleName, TRUE)

\* What the promise of call c settles with once its import promise settled:
\* the call that awaits the import inside try/catch gets the module or null,
\* a call that returned the stored promise adopts its outcome.
SettledResult(c, ok) ==
  IF ok THEN "module"
  ELSE IF c.kind = "fetch" THEN "null"
  ELSE "rejected"

afterImport_KeepsPending(s, d, ok) ==
  LET moduleName == s.imports[d].name
      settled == [i \in 1..Len(s.calls) |->
                    IF s.calls[i].imp = d
                      THEN [s.calls[i] EXCEPT !.result = SettledResult(s.calls[i], ok)]
                      ELSE s.calls[i]]
  IN IF ok
       THEN [s EXCEPT !.imports[d].status = "fulfilled",
                      !.loadedModules = MapSet(@, moduleName, ModuleOf(moduleName)),
                      !.pendingLoads = IF MapHas(@, moduleName) /\ @[moduleName] # d
                                         THEN @ ELSE MapDelete(@, moduleName),
                      !.failedLoads = @ \ {moduleName},
                      !.retryCount = MapDelete(@, moduleName),
                      !.calls = settled]
       ELSE [s EXCEPT !.imports[d].status = "rejected",
                      !.pendingLoads = MapDelete(@, moduleName),
                      !.failedLoads = @ \cup {moduleName},
                      !.retryCount = MapSet(@, moduleName, Retries(s, moduleName) + 1),
                      !.calls = settled]

afterImport_KeepsCount(s, d, ok) ==
  LET moduleName == s.imports[d].name
      settled == [i \in 1..Len(s.calls) |->
                    IF s.calls[i].imp = d
                      THEN [s.calls[i] EXCEPT !.result = SettledResult(s.calls[i], ok)]
                      ELSE s.calls[i]]
  IN IF ok
       THEN [s EXCEPT !.imports[d].status = "fulfilled",
                      !.loadedModules = MapSet(@, moduleName, ModuleOf(moduleName)),
                      !.pendingLoads = MapDelete(@, moduleName),
                      !.failedLoads = @ \ {moduleName},
                      !.calls = settled]
       ELSE [s EXCEPT !.imports[d].status = "rejected",
                      !.pendingLoads = MapDelete(@, moduleName),
                      !.failedLoads = @ \cup {moduleName},
                      !.retryCount = MapSet(@, moduleName, Retries(s, moduleName) + 1),
                      !.calls = settled]

\* The continuation of loadModule after `await modulePromise`.
afterImport(s, d, ok) ==
  LET moduleName == s.imports[d].name
      settled == [i \in 1..Len(s.calls) |->
                    IF s.calls[i].imp = d
                      THEN [s.calls[i] EXCEPT !.result = SettledResult(s.calls[i], ok)]
                      ELSE s.calls[i]]
  IN IF ok
       THEN [s EXCEPT !.imports[d].status = "fulfilled",
                      !.loadedModules = MapSet(@, moduleName, ModuleOf(moduleName)),
                      !.pendingLoads = MapDelete(@, moduleName),
                      !.failedLoads = @ \ {moduleName},
                      !.retryCount = MapDelete(@, moduleName),
                      !.calls = settled]
       ELSE [s EXCEPT !.imports[d].status = "rejected",
                      !.pendingLoads = MapDelete(@, moduleName),
                      !.failedLoads = @ \cup {moduleName},
                      !.retryCount = MapSet(@, moduleName, Retries(s, moduleName) + 1),
                      !.calls = settled]

\* A route/viewport/interaction load: the calls it made and whether each
\* call's promise was given a .catch(() => null) before Promise.all.
Batch(op, first, n, caught) ==
  [op |-> op, members |-> {first + i : i \in 0..(n - 1)}, caught |-> caught]

\* What the promise of a batch settles with (Promise.all / await).
BatchOutcome_NoCatch(b) ==
  IF \E i \in b.members : calls[i].result = "rejected" THEN "rejected"
  ELSE IF \A i \in b.members : calls[i].result # "pending" THEN "resolved"
  ELSE "pending"

BatchOutcome(b) ==
  IF ~b.caught /\ \E i \in b.members : calls[i].result = "rejected" THEN "rejected"
  ELSE IF \A i \in b.members : calls[i].result # "pending" THEN "resolved"
  ELSE "pending"

-----------------------------------------------------------------------------
(* Loader actions.                                                         *)

Install(s) ==
  /\ loadedModules' = s.loadedModules
  /\ pendingLoads' = s.pendingLoads
  /\ failedLoads' = s.failedLoads
  /\ retryCount' = s.retryCount
  /\ imports' = s.imports
  /\ calls' = s.calls

LoadModule(moduleName, condition) ==
  /\ Len(calls) < MaxCalls
  /\ Install(loadModule(LoaderState, moduleName, condition))
  /\ UNCHANGED <<batches, storeVars, eventVars, utilVars, appVars>>

RetryModule(moduleName) ==
  /\ Len(calls) < MaxCalls
  /\ Install(retryModule(LoaderState, moduleName))
  /\ UNCHANGED <<batches, storeVars, eventVars, utilVars, appVars>>

\* The import promise d fulfils: the module was fetched and evaluated.
ImportFulfils(d) ==
  /\ imports[d].status = "inflight"
  /\ imports[d].importer
  /\ Install(afterImport(LoaderState, d, TRUE))
  /\ UNCHANGED <<batches, storeVars, eventVars, utilVars, appVars>>

\* The import promise d rejects: network error, or no importer for the name.
ImportRejects(d) ==
  /\ imports[d].status = "inflight"
  /\ Install(afterImport(LoaderState, d, FALSE))
  /\ UNCHANGED <<batches, storeVars, eventVars, utilVars, appVars>>

LoadPageSpecificModules(currentPage) ==
  LET modules == pageModules(currentPage) IN
  /\ Len(batches) < MaxBatches
  /\ Len(calls) + Len(modules) <= MaxCalls
  /\ Install(loadAll(LoaderState, modules))
  /\ batches' = Append(batches, Batch("page", Len(calls) + 1, Len(modules), TRUE))
  /\ UNCHANGED <<storeVars, eventVars, utilVars, appVars>>

LoadViewportSpecificModules(isMobile) ==
  LET modules == IF isMobile THEN <<"drawer">> ELSE <<>> IN
  /\ Len(batches) < MaxBatches
  /\ Len(calls) + Len(modules) <= MaxCalls
  /\ Install(loadAll(LoaderState, modules))
  /\ batches' = Append(batches, Batch("viewport", Len(calls) + 1, Len(modules), FALSE))
  /\ UNCHANGED <<storeVars, eventVars, utilVars, appVars>>

LoadOnInteraction(interaction) ==
  LET modules == interactionModules(interaction) IN
  /\ Len(batches) < MaxBatches
  /\ Len(calls) + Len(modules) <= MaxCalls
  /\ Install(loadAll(LoaderState, modules))
  /\ batches' = Append(batches, Batch("interaction", Len(calls) + 1, Len(modules), FALSE))
  /\ UNCHANGED <<storeVars, eventVars, utilVars, appVars>>

PreloadCriticalModules ==
  /\ Len(batches) < MaxBatches
  /\ Len(calls) + Len(criticalModules) <= MaxPreloadCalls
  /\ Install(loadAll(LoaderState, criticalModules))
  /\ batches' = Append(batches, Batch("preload", Len(calls) + 1, Len(criticalModules), TRUE))
  /\ UNCHANGED <<storeVars, eventVars, utilVars, appVars>>

Cleanup ==
  /\ pendingLoads' = EmptyMap
  /\ UNCHANGED <<loadedModules, failedLoads, retryCount, imports, calls, batches>>
  /\ UNCHANGED <<storeVars, eventVars, utilVars, appVars>>

-----------------------------------------------------------------------------
(* JavaScript values of the state manager, by type and content.  A string  *)
(* is the sequence of its characters.                                      *)

Str(chars) == [t |-> "string", v |-> chars]

Bool(b) == [t |-> "boolean", v |-> <<b>>]

Undefined == [t |-> "undefined", v |-> <<>>]

Null == [t |-> "null", v |-> <<>>]

NaN == [t |-> "number", v |-> <<"NaN">>]

Num(digits) == [t |-> "number", v |-> digits]

\* Not a value: what an evaluation yields when it throws.
Thrown == [t |-> "thrown", v |-> <<>>]

Alice == <<"A", "l", "i", "c", "e">>

PaddedAlice == <<" ", " ">> \o Alice \o <<" ", " ">>

\* The values the model's callers write.
Values == {Str(PaddedAlice), Bool("true")}

\* The keys the model's callers write and subscribe to: one ordinary field
\* and one field of autoSave's list.
StoreKeys == {"name", "darkMode"}

\* CONFIG.LANGUAGES.DEFAULT
DefaultLanguage == Str(<<"f", "r">>)

\* CONFIG.BREAKPOINTS.MOBILE
MOBILE == 880

\* A path or URL as the sequence of its parts between slashes:
\* "/contact.html" is <<"", "contact.html">>, "/" is <<"", "">>.
ContactPath == <<"", "contact.html">>

\* The window when the scripts start to run: a desktop viewport, on the
\* contact page.
InitialWindow ==
  [innerWidth |-> MOBILE + 1, innerHeight |-> MOBILE, pathname |-> ContactPath]

\* A number's value among the store's values: its decimal digits.
RECURSIVE digits(_)
digits(n) ==
  LET digit == <<"0", "1", "2", "3", "4", "5", "6", "7", "8", "9">>[(n % 10) + 1]
  IN IF n < 10 THEN <<digit>> ELSE Append(digits(n \div 10), digit)

\* innerWidth <= CONFIG.BREAKPOINTS.MOBILE
belowBreakpoint(w) == Bool(IF w.innerWidth <= MOBILE THEN "true" ELSE "false")

\* The fields of the initial state object that the model follows, as the
\* constructor and reset() build it from window w.
initialState(w) ==
  [currentLanguage |-> DefaultLanguage, darkMode |-> Bool("false"), drawerOpen |-> Bool("false"),
   viewportWidth |-> Num(digits(w.innerWidth)),
   viewportHeight |-> Num(digits(w.innerHeight)),
   isMobile |-> belowBreakpoint(w)]

\* The constructor's state object.
InitialState == initialState(InitialWindow)

\* String.prototype.trim on a sequence of characters.
RECURSIVE trimStart(_)
trimStart(chars) ==
  IF chars # <<>> /\ Head(chars) = " " THEN trimStart(Tail(chars)) ELSE chars

RECURSIVE trimEnd(_)
trimEnd(chars) ==
  IF chars # <<>> /\ chars[Len(chars)] = " "
    THEN trimEnd(SubSeq(chars, 1, Len(chars) - 1))
    ELSE chars

trim(chars) == trimEnd(trimStart(chars))

\* JSON.stringify(value) as localStorage.setItem stores it.
JSONstringify(value) ==
  CASE value.t = "string" -> <<"\"">> \o value.v \o <<"\"">>
    [] value.t = "boolean" -> value.v
    [] value.t = "null" -> <<"null">>
    [] OTHER -> <<"undefined">>

-----------------------------------------------------------------------------
(* The middleware functions and subscriber callbacks the model registers.  *)

\* trim:   (k, v) => typeof v === 'string' ? v.trim() : v
\* toggle: (k, v, old) => v === old ? null : v
\* guard:  (k, v) => { if (k === 'darkMode' && typeof v !== 'boolean') throw ...; return v }
Middlewares == {"trim", "toggle", "guard"}

runMiddleware(m, key, value, oldValue) ==
  CASE m = "trim" -> IF value.t = "string" THEN Str(trim(value.v)) ELSE value
    [] m = "toggle" -> IF value = oldValue THEN Null ELSE value
    [] m = "guard" -> IF key = "darkMode" /\ value.t # "boolean" THEN Thrown ELSE value

\* reader:  reads the state and returns
\* thrower: throws
\* leaver:  calls its own unsubscribe function for the notified key
\* evictor: calls reader's unsubscribe function for the notified key
Callbacks == {"reader", "thrower", "leaver", "evictor"}

callbackThrows(cb) == cb = "thrower"

callbackUnsubscribes(cb) ==
  CASE cb = "leaver" -> {"leaver"}
    [] cb = "evictor" -> {"reader"}
    [] OTHER -> {}

\* writer: calls setState(key, true) for the key it is notified of
\* relay:  calls setState('darkMode', true) when notified of another key
ReentrantCallbacks == {"writer", "relay"}

\* The setState call a callback makes while it is being notified of key:
\* <<key, value>>, or <<>> when it makes none.
callbackWrites(cb, key) ==
  CASE cb = "writer" -> <<key, Bool("true")>>
    [] cb = "relay" /\ key # "darkMode" -> <<"darkMode", Bool("true")>>
    [] OTHER -> <<>>

-----------------------------------------------------------------------------
(* StateManager.                                                           *)

Range(seq) == {seq[i] : i \in 1..Len(seq)}

Without(seq, x) == SelectSeq(seq, LAMBDA y : y # x)

\* One step of a StateManager call, as the log records it.
Event(type, cb, key, newValue, oldValue, seen, threw) ==
  [type |-> type, cb |-> cb, key |-> key, newValue |-> newValue,
   oldValue |-> oldValue, seen |-> seen, threw |-> threw]

\* The manager's mutable fields during one call, with the call's log and
\* whether it returned or threw.
StoreState ==
  [state |-> state, subscribers |-> subscribers, localStorage |-> localStorage,
   log |-> <<>>, outcome |-> "returned"]

\* getState(key): this.state[key]
getState(s, key) == IF MapHas(s, key) THEN s[key] ELSE Undefined

\* subscribe(key, callback): Set.prototype.add keeps an existing entry in place.
subscribe(subs, key, cb) ==
  IF ~MapHas(subs, key) THEN MapSet(subs, key, <<cb>>)
  ELSE IF cb \in Range(subs[key]) THEN subs
  ELSE MapSet(subs, key, Append(subs[key], cb))

\* The unsubscribe function subscribe(key, callback) returns.
unsubscribe(subs, key, cb) ==
  IF ~MapHas(subs, key) THEN subs
  ELSE IF Without(subs[key], cb) = <<>> THEN MapDelete(subs, key)
  ELSE MapSet(subs, key, Without(subs[key], cb))

StillToVisit_Snapshot(subs, key, remaining) == remaining

\* The callbacks Set.prototype.forEach still visits after visiting one:
\* entries deleted from the set in the meantime are skipped.
StillToVisit(subs, key, remaining) ==
  IF MapHas(subs, key)
    THEN SelectSeq(remaining, LAMBDA c : c \in Range(subs[key]))
    ELSE <<>>

RECURSIVE setState(_, _, _, _, _)

\* try { callback(newValue, oldValue, key) } catch (error) { log }
\* A callback that calls setState runs that call to its end, on the manager
\* as it is, before the round goes on; an exception of the inner call is
\* the callback's, and is caught here.
callCallback(st, cb, key, newValue, oldValue) ==
  LET called == [st EXCEPT !.log = Append(@, Event("notify", cb, key, newValue, oldValue,
                                                  st.state, callbackThrows(cb)))]
      leaving == callbackUnsubscribes(cb)
      inner == callbackWrites(cb, key)
  IN IF inner # <<>>
       THEN [setState(called, middleware, inner[1], inner[2], TRUE)
               EXCEPT !.outcome = called.outcome]
     ELSE IF leaving = {} THEN called
     ELSE [called EXCEPT !.subscribers = unsubscribe(@, key, CHOOSE c \in leaving : TRUE)]

RECURSIVE forEachSubscriber_NoCatch(_, _, _, _, _)
forEachSubscriber_NoCatch(st, key, newValue, oldValue, remaining) ==
  IF remaining = <<>> THEN st
  ELSE LET after == callCallback(st, Head(remaining), key, newValue, oldValue)
       IN IF callbackThrows(Head(remaining)) THEN [after EXCEPT !.outcome = "threw"]
          ELSE forEachSubscriber_NoCatch(after, key, newValue, oldValue,
                                         StillToVisit(after.subscribers, key, Tail(remaining)))

RECURSIVE forEachSubscriber(_, _, _, _, _)
forEachSubscriber(st, key, newValue, oldValue, remaining) ==
  IF remaining = <<>> THEN st
  ELSE LET after == callCallback(st, Head(remaining), key, newValue, oldValue)
       IN forEachSubscriber(after, key, newValue, oldValue,
                            StillToVisit(after.subscribers, key, Tail(remaining)))

\* notifySubscribers(key, newValue, oldValue)
notifySubscribers(st, key, newValue, oldValue) ==
  IF MapHas(st.subscribers, key) /\ Len(st.subscribers[key]) > 0
    THEN forEachSubscriber(st, key, newValue, oldValue, st.subscribers[key])
    ELSE st

RECURSIVE applyMiddleware_Reversed(_, _, _, _)
applyMiddleware_Reversed(chain, key, value, oldValue) ==
  IF chain = <<>> THEN value
  ELSE LET processedValue == runMiddleware(chain[Len(chain)], key, value, oldValue)
       IN IF processedValue = Thrown THEN Thrown
          ELSE applyMiddleware_Reversed(SubSeq(chain, 1, Len(chain) - 1), key,
                                        processedValue, oldValue)

\* applyMiddleware(key, value, oldValue): Array.prototype.reduce over the
\* chain; a middleware that throws ends the reduction with its exception.
RECURSIVE applyMiddleware(_, _, _, _)
applyMiddleware(chain, key, value, oldValue) ==
  IF chain = <<>> THEN value
  ELSE LET processedValue == runMiddleware(Head(chain), key, value, oldValue)
       IN IF processedValue = Thrown THEN Thrown
          ELSE applyMiddleware(Tail(chain), key, processedValue, oldValue)

autoSaveKeys == {"currentLanguage", "darkMode", "cookiePreferences"}

\* The item name autoSave writes: `oudar-${key}`
itemName(key) == <<"oudar-", key>>

\* autoSave(key, value)
autoSave(st, key, value) ==
  IF key \in autoSaveKeys
    THEN [st EXCEPT !.localStorage = MapSet(@, itemName(key), JSONstringify(value)),
                    !.log = Append(@, Event("save", "", key, value, value, st.state, FALSE))]
    ELSE st

\* this.state[key] = processedValue
writeState(st, key, processedValue, oldValue) ==
  LET s == MapSet(st.state, key, processedValue)
  IN [st EXCEPT !.state = s,
                !.log = Append(@, Event("write", "", key, processedValue, oldValue, s, FALSE))]

shouldNotify_RawValue(notify, oldValue, processedValue, value) ==
  notify /\ oldValue # value

shouldNotify_Always(notify, oldValue, processedValue, value) == notify

\* notify && oldValue !== processedValue
shouldNotify(notify, oldValue, processedValue, value) ==
  notify /\ oldValue # processedValue

\* setState(key, value, notify)
setState(st, chain, key, value, notify) ==
  LET oldValue == getState(st.state, key)
      processedValue == applyMiddleware(chain, key, value, oldValue)
      written == writeState(st, key, processedValue, oldValue)
      notified == IF shouldNotify(notify, oldValue, processedValue, value)
                    THEN notifySubscribers(written, key, processedValue, oldValue)
                    ELSE written
  IN IF processedValue = Thrown THEN [st EXCEPT !.outcome = "threw"]
     ELSE autoSave(notified, key, processedValue)

\* The first loop of setMultipleStates, over Object.entries(updates):
\* r carries the manager's fields and the changes collected so far.
RECURSIVE applyUpdates(_, _, _)
applyUpdates(r, chain, entries) ==
  IF entries = <<>> THEN r
  ELSE LET key == Head(entries)[1]
           value == Head(entries)[2]
           oldValue == getState(r.st.state, key)
           processedValue == applyMiddleware(chain, key, value, oldValue)
           change == [key |-> key, oldValue |-> oldValue, newValue |-> processedValue]
       IN IF processedValue = Thrown THEN [r EXCEPT !.st.outcome = "threw"]
          ELSE applyUpdates([st |-> writeState(r.st, key, processedValue, oldValue),
                             changes |-> IF oldValue # processedValue
                                           THEN Append(r.changes, change)
                                           ELSE r.changes],
                            chain, Tail(entries))

\* The second loop of setMultipleStates: changes.forEach(notifySubscribers).
RECURSIVE notifyChanges(_, _)
notifyChanges(st, changes) ==
  IF changes = <<>> THEN st
  ELSE notifyChanges(notifySubscribers(st, Head(changes).key, Head(changes).newValue,
                                       Head(changes).oldValue),
                     Tail(changes))

RECURSIVE setMultipleStates_NotifyPerKey(_, _, _, _)
setMultipleStates_NotifyPerKey(st, chain, updates, notify) ==
  IF updates = <<>> THEN st
  ELSE LET key == Head(updates)[1]
           oldValue == getState(st.state, key)
           processedValue == applyMiddleware(chain, key, Head(updates)[2], oldValue)
           written == writeState(st, key, processedValue, oldValue)
       IN IF processedValue = Thrown THEN [st EXCEPT !.outcome = "threw"]
          ELSE setMultipleStates_NotifyPerKey(
                 IF notify /\ oldValue # processedValue
                   THEN notifySubscribers(written, key, processedValue, oldValue)
                   ELSE written,
                 chain, Tail(updates), notify)

\* setMultipleStates(updates, notify); updates is the sequence of
\* Object.entries(updates), <<key, value>> pairs with distinct keys.
setMultipleStates(st, chain, updates, notify) ==
  LET r == applyUpdates([st |-> st, changes |-> <<>>], chain, updates)
  IN IF r.st.outcome = "threw" THEN r.st
     ELSE IF notify THEN notifyChanges(r.st, r.changes)
     ELSE r.st

\* The update objects the model's callers pass to setMultipleStates: two
\* keys in either order, with two different values.
Updates ==
  {u \in {<<<<k1, v1>>, <<k2, v2>>>> : k1 \in StoreKeys, k2 \in StoreKeys,
                                       v1 \in Values, v2 \in Values} :
     u[1][1] # u[2][1] /\ u[1][2] # u[2][2]}

-----------------------------------------------------------------------------
(* StateManager actions.                                                   *)

\* The number of subscriptions the manager holds.
RECURSIVE Subscriptions(_)
Subscriptions(subs) ==
  IF DOMAIN subs = {} THEN 0
  ELSE LET key == CHOOSE k \in DOMAIN subs : TRUE
       IN Len(subs[key]) + Subscriptions(MapDelete(subs, key))

Op(op, key, cb, value, updates, notify, outcome) ==
  [op |-> op, key |-> key, cb |-> cb, value |-> value, updates |-> updates,
   notify |-> notify, outcome |-> outcome]

InstallStore(st) ==
  /\ state' = st.state
  /\ subscribers' = st.subscribers
  /\ localStorage' = st.localStorage
  /\ log' = st.log

SetState(key, value, notify) ==
  LET st == setState(StoreState, middleware, key, value, notify) IN
  /\ InstallStore(st)
  /\ lastOp' = Op("setState", key, "", value, <<>>, notify, st.outcome)
  /\ UNCHANGED <<middleware, loaderVars, eventVars, utilVars, appVars>>

SetMultipleStates(updates, notify) ==
  LET st == setMultipleStates(StoreState, middleware, updates, notify) IN
  /\ InstallStore(st)
  /\ lastOp' = Op("setMultipleStates", "", "", Undefined, updates, notify, st.outcome)
  /\ UNCHANGED <<middleware, loaderVars, eventVars, utilVars, appVars>>

Subscribe(key, cb) ==
  /\ Subscriptions(subscribe(subscribers, key, cb)) <= MaxSubscriptions
  /\ InstallStore([StoreState EXCEPT !.subscribers = subscribe(@, key, cb)])
  /\ lastOp' = Op("subscribe", key, cb, Undefined, <<>>, FALSE, "returned")
  /\ UNCHANGED <<middleware, loaderVars, eventVars, utilVars, appVars>>

Unsubscribe(key, cb) ==
  /\ MapHas(subscribers, key)
  /\ cb \in Range(subscribers[key])
  /\ InstallStore([StoreState EXCEPT !.subscribers = unsubscribe(@, key, cb)])
  /\ lastOp' = Op("unsubscribe", key, cb, Undefined, <<>>, FALSE, "returned")
  /\ UNCHANGED <<middleware, loaderVars, eventVars, utilVars, appVars>>

reset_KeepsSubscribers(st) == [st EXCEPT !.state = initialState(window)]

\* reset(): this.state = initialState; this.subscribers.clear()
reset(st) == [st EXCEPT !.state = initialState(window), !.subscribers = EmptyMap]

Reset ==
  /\ InstallStore(reset(StoreState))
  /\ lastOp' = Op("reset", "", "", Undefined, <<>>, FALSE, "returned")
  /\ UNCHANGED <<middleware, loaderVars, eventVars, utilVars, appVars>>

AddMiddleware(m) ==
  /\ Len(middleware) < MaxMiddleware
  /\ m \notin Range(middleware)
  /\ middleware' = Append(middleware, m)
  /\ lastOp' = Op("addMiddleware", "", m, Undefined, <<>>, FALSE, "returned")
  /\ log' = <<>>
  /\ UNCHANGED <<state, subscribers, localStorage, loaderVars, eventVars, utilVars, appVars>>

-----------------------------------------------------------------------------
(* The event manager (js/utils/events.js) and the part of the DOM it       *)
(* calls: addEventListener, removeEventListener and dispatchEvent of an    *)
(* EventTarget.                                                            *)

\* this.maxHistorySize
maxHistorySize == 100

\* Event names emitted and listened to.
EventNames == {"x", "y"}

\* The namespaces channels are created for, and `${namespace}:${eventName}`.
Namespaces == {"ui"}

Prefixed(namespace, eventName) ==
  CASE namespace = "ui" /\ eventName = "x" -> "ui:x"
    [] namespace = "ui" /\ eventName = "y" -> "ui:y"

\* The event names channels produce.
ChannelEventNames == {Prefixed(namespace, eventName) : namespace \in Namespaces, eventName \in EventNames}

\* An eventName that has no string conversion: new CustomEvent(Symbol())
\* throws a TypeError.
SymbolName == "Symbol()"

\* The event targets: window (emit's default target) and an element below it.
Targets == {"window", "form"}

\* A target argument that is not an EventTarget: target.dispatchEvent throws.
NoTarget == "null"

\* The propagation path of an event dispatched to target with bubbles: true.
Path(target) == IF target = "form" THEN <<"form", "window">> ELSE <<"window">>

\* The handlers callers pass to on/once, and whether a handler throws.
Handlers == {"handler", "thrower"}

handlerThrows(h) == h = "thrower"

\* The limit arguments of getHistory/getHistoryFor (10 is the default).
Limits == {-1, 1, 10}

\* A function object: a handler passed by a caller (wrap = 0), or the
\* wrappedHandler closure created by the wrap-th registration, a once call.
Fn(h, wrap) == [fn |-> h, wrap |-> wrap]

\* const listenerData = { handler, target }; id is the object's identity.
listenerData(handler, target, id) == [handler |-> handler, target |-> target, id |-> id]

\* An on/once call: what it registered, and its position among the calls.
Registration(eventName, handler, target, id) ==
  [name |-> eventName, handler |-> handler, target |-> target, id |-> id]

\* target.addEventListener(eventName, fn): a listener already in the list is
\* not added again.
addEventListener(et, target, eventName, fn) ==
  IF fn \in Range(et[<<target, eventName>>]) THEN et
  ELSE [et EXCEPT ![<<target, eventName>>] = Append(@, fn)]

\* target.removeEventListener(eventName, fn)
removeEventListener(et, target, eventName, fn) ==
  [et EXCEPT ![<<target, eventName>>] = Without(@, fn)]

\* The manager's fields and the DOM during one call, with what the call
\* delivered and returned.
Bus ==
  [listeners |-> listeners, eventHistory |-> eventHistory, eventTargets |-> eventTargets,
   invoked |-> invoked, delivered |-> <<>>, result |-> "undefined", outcome |-> "returned"]

Invocations(inv, fn) == IF MapHas(inv, fn) THEN inv[fn] ELSE 0

\* The DOM calls listener fn of node.  An exception of a listener is
\* reported by the DOM and does not leave dispatchEvent.  The wrappedHandler
\* of once calls the handler and then removes itself from the target.
callListener(b, fn, node, eventName) ==
  LET called == [b EXCEPT !.invoked = MapSet(@, fn, Invocations(b.invoked, fn) + 1),
                          !.delivered = Append(@, [fn |-> fn, node |-> node])]
  IN IF fn.wrap = 0 \/ handlerThrows(fn.fn) THEN called
     ELSE [called EXCEPT !.eventTargets = removeEventListener(@, node, eventName, fn)]

\* The DOM calls the listeners node had when the event arrived, skipping
\* those removed in the meantime.
RECURSIVE callListeners(_, _, _, _)
callListeners(b, snapshot, node, eventName) ==
  IF snapshot = <<>> THEN b
  ELSE callListeners(IF Head(snapshot) \in Range(b.eventTargets[<<node, eventName>>])
                       THEN callListener(b, Head(snapshot), node, eventName)
                       ELSE b,
                     Tail(snapshot), node, eventName)

\* target.dispatchEvent(event), along the propagation path.
RECURSIVE dispatchEvent(_, _, _)
dispatchEvent(b, path, eventName) ==
  IF path = <<>> THEN b
  ELSE dispatchEvent(callListeners(b, b.eventTargets[<<Head(path), eventName>>],
                                   Head(path), eventName),
                     Tail(path), eventName)

addToHistory_DropsNewest(history, eventName, data, now) ==
  LET unshifted == <<[name |-> eventName, data |-> data, timestamp |-> now]>> \o history
  IN IF Len(unshifted) > maxHistorySize
       THEN SubSeq(unshifted, 2, maxHistorySize + 1)
       ELSE unshifted

\* addToHistory(eventName, data); now is Date.now()
addToHistory(history, eventName, data, now) ==
  LET unshifted == <<[name |-> eventName, data |-> data, timestamp |-> now]>> \o history
  IN IF Len(unshifted) > maxHistorySize
       THEN SubSeq(unshifted, 1, maxHistorySize)
       ELSE unshifted

\* Array.prototype.slice(0, limit)
slice(array, limit) ==
  LET end == IF limit < 0
               THEN (IF Len(array) + limit < 0 THEN 0 ELSE Len(array) + limit)
               ELSE (IF limit > Len(array) THEN Len(array) ELSE limit)
  IN SubSeq(array, 1, end)

\* getHistory(limit)
getHistory(history, limit) == slice(history, limit)

\* getHistoryFor(eventName, limit)
getHistoryFor(history, eventName, limit) ==
  slice(SelectSeq(history, LAMBDA entry : entry.name = eventName), limit)

emit_NoCatch(b, eventName, data, target, now) ==
  IF eventName = SymbolName
    THEN [b EXCEPT !.outcome = "threw"]
  ELSE LET recorded == [b EXCEPT !.eventHistory = addToHistory(@, eventName, data, now)]
       IN IF target \notin Targets
            THEN [recorded EXCEPT !.outcome = "threw"]
            ELSE [dispatchEvent(recorded, Path(target), eventName) EXCEPT !.result = "event"]

emit_RecordsAfterDispatch(b, eventName, data, target, now) ==
  IF eventName = SymbolName \/ target \notin Targets
    THEN [b EXCEPT !.result = "null"]
  ELSE LET recorded == [b EXCEPT !.eventHistory = addToHistory(@, eventName, data, now)]
       IN [dispatchEvent(recorded, Path(target), eventName) EXCEPT !.result = "event"]

\* emit(eventName, data, target)
emit(b, eventName, data, target, now) ==
  IF eventName = SymbolName
    THEN [b EXCEPT !.result = "null"]
  ELSE LET recorded == [b EXCEPT !.eventHistory = addToHistory(@, eventName, data, now)]
       IN IF target \notin Targets
            THEN [recorded EXCEPT !.result = "null"]
            ELSE [dispatchEvent(recorded, Path(target), eventName) EXCEPT !.result = "event"]

\* on(eventName, handler, target)
on(b, eventName, handler, target, id) ==
  LET known == IF MapHas(b.listeners, eventName) THEN b.listeners[eventName] ELSE <<>>
  IN [b EXCEPT !.listeners = MapSet(@, eventName, Append(known, listenerData(handler, target, id))),
               !.eventTargets = addEventListener(@, target, eventName, handler)]

\* once(eventName, handler, target)
once(b, eventName, handler, target, id) == on(b, eventName, Fn(handler, id), target, id)

\* eventListeners.forEach(({ handler, target }) => target.removeEventListener(...))
RECURSIVE removeAll(_, _, _)
removeAll(et, eventName, eventListeners) ==
  IF eventListeners = <<>> THEN et
  ELSE removeAll(removeEventListener(et, Head(eventListeners).target, eventName,
                                     Head(eventListeners).handler),
                 eventName, Tail(eventListeners))

off_RegistryOnly(b, eventName) ==
  IF MapHas(b.listeners, eventName)
    THEN [b EXCEPT !.listeners = MapDelete(@, eventName)]
    ELSE b

\* off(eventName)
off(b, eventName) ==
  IF MapHas(b.listeners, eventName)
    THEN [b EXCEPT !.eventTargets = removeAll(@, eventName, b.listeners[eventName]),
                   !.listeners = MapDelete(@, eventName)]
    ELSE b

channelEmit_Unprefixed(b, namespace, eventName, data, target, now) ==
  emit(b, eventName, data, target, now)

\* createChannel(namespace).emit
channelEmit(b, namespace, eventName, data, target, now) ==
  emit(b, Prefixed(namespace, eventName), data, target, now)

\* createChannel(namespace).on
channelOn(b, namespace, eventName, handler, target, id) ==
  on(b, Prefixed(namespace, eventName), handler, target, id)

\* createChannel(namespace).once
channelOnce(b, namespace, eventName, handler, target, id) ==
  once(b, Prefixed(namespace, eventName), handler, target, id)

\* createChannel(namespace).off
channelOff(b, namespace, eventName) == off(b, Prefixed(namespace, eventName))

\* this.listeners.forEach((eventListeners, eventName) => this.off(eventName))
RECURSIVE offAll(_)
offAll(b) ==
  IF DOMAIN b.listeners = {} THEN b
  ELSE offAll(off(b, CHOOSE eventName \in DOMAIN b.listeners : TRUE))

destroy_RegistryOnly(b) == [b EXCEPT !.listeners = EmptyMap, !.eventHistory = <<>>]

\* destroy(): off for every event name, listeners.clear(), clearHistory()
destroy(b) == [offAll(b) EXCEPT !.listeners = EmptyMap, !.eventHistory = <<>>]

-----------------------------------------------------------------------------
(* Event manager actions.                                                  *)

BusOp(op, eventName, target, limit, b, view) ==
  [op |-> op, name |-> eventName, target |-> target, limit |-> limit,
   result |-> b.result, outcome |-> b.outcome, delivered |-> b.delivered, view |-> view]

InstallBus(b) ==
  /\ listeners' = b.listeners
  /\ eventHistory' = b.eventHistory
  /\ eventTargets' = b.eventTargets
  /\ invoked' = b.invoked

\* emit(eventName, data, target), while fewer than bound emits were made.
Emit(eventName, data, target, bound) ==
  LET b == emit(Bus, eventName, data, target, emitted + 1) IN
  /\ emitted < bound
  /\ InstallBus(b)
  /\ emitted' = emitted + 1
  /\ busOp' = BusOp("emit", eventName, target, 0, b, <<>>)
  /\ UNCHANGED <<registrations, loaderVars, storeVars, utilVars, appVars>>

On(eventName, handler, target) ==
  LET id == Len(registrations) + 1
      b == on(Bus, eventName, Fn(handler, 0), target, id) IN
  /\ Len(registrations) < MaxRegistrations
  /\ InstallBus(b)
  /\ registrations' = Append(registrations, Registration(eventName, Fn(handler, 0), target, id))
  /\ busOp' = BusOp("on", eventName, target, 0, b, <<>>)
  /\ UNCHANGED <<emitted, loaderVars, storeVars, utilVars, appVars>>

Once(eventName, handler, target) ==
  LET id == Len(registrations) + 1
      b == once(Bus, eventName, handler, target, id) IN
  /\ Len(registrations) < MaxRegistrations
  /\ InstallBus(b)
  /\ registrations' = Append(registrations, Registration(eventName, Fn(handler, id), target, id))
  /\ busOp' = BusOp("once", eventName, target, 0, b, <<>>)
  /\ UNCHANGED <<emitted, loaderVars, storeVars, utilVars, appVars>>

Off(eventName) ==
  LET b == off(Bus, eventName) IN
  /\ InstallBus(b)
  /\ busOp' = BusOp("off", eventName, "", 0, b, <<>>)
  /\ UNCHANGED <<registrations, emitted, loaderVars, storeVars, utilVars, appVars>>

Destroy ==
  LET b == destroy(Bus) IN
  /\ InstallBus(b)
  /\ busOp' = BusOp("destroy", "", "", 0, b, <<>>)
  /\ UNCHANGED <<registrations, emitted, loaderVars, storeVars, utilVars, appVars>>

ChannelEmit(namespace, eventName, data, target) ==
  LET b == channelEmit(Bus, namespace, eventName, data, target, emitted + 1) IN
  /\ emitted < MaxDispatches
  /\ InstallBus(b)
  /\ emitted' = emitted + 1
  /\ busOp' = BusOp("channel.emit", eventName, target, 0, b, <<>>)
  /\ UNCHANGED <<registrations, loaderVars, storeVars, utilVars, appVars>>

ChannelOn(namespace, eventName, handler, target) ==
  LET id == Len(registrations) + 1
      b == channelOn(Bus, namespace, eventName, Fn(handler, 0), target, id) IN
  /\ Len(registrations) < MaxRegistrations
  /\ InstallBus(b)
  /\ registrations' = Append(registrations,
       Registration(Prefixed(namespace, eventName), Fn(handler, 0), target, id))
  /\ busOp' = BusOp("channel.on", eventName, target, 0, b, <<>>)
  /\ UNCHANGED <<emitted, loaderVars, storeVars, utilVars, appVars>>

ChannelOnce(namespace, eventName, handler, target) ==
  LET id == Len(registrations) + 1
      b == channelOnce(Bus, namespace, eventName, handler, target, id) IN
  /\ Len(registrations) < MaxRegistrations
  /\ InstallBus(b)
  /\ registrations' = Append(registrations,
       Registration(Prefixed(namespace, eventName), Fn(handler, id), target, id))
  /\ busOp' = BusOp("channel.once", eventName, target, 0, b, <<>>)
  /\ UNCHANGED <<emitted, loaderVars, storeVars, utilVars, appVars>>

ChannelOff(namespace, eventName) ==
  LET b == channelOff(Bus, namespace, eventName) IN
  /\ InstallBus(b)
  /\ busOp' = BusOp("channel.off", eventName, "", 0, b, <<>>)
  /\ UNCHANGED <<registrations, emitted, loaderVars, storeVars, utilVars, appVars>>

GetHistory(limit) ==
  /\ busOp' = BusOp("getHistory", "", "", limit, Bus, getHistory(eventHistory, limit))
  /\ UNCHANGED <<listeners, eventHistory, eventTargets, registrations, invoked, emitted>>
  /\ UNCHANGED <<loaderVars, storeVars, utilVars, appVars>>

GetHistoryFor(eventName, limit) ==
  /\ busOp' = BusOp("getHistoryFor", eventName, "", limit, Bus,
                    getHistoryFor(eventHistory, eventName, limit))
  /\ UNCHANGED <<listeners, eventHistory, eventTargets, registrations, invoked, emitted>>
  /\ UNCHANGED <<loaderVars, storeVars, utilVars, appVars>>

EventInit ==
  /\ listeners = EmptyMap
  /\ eventHistory = <<>>
  /\ eventTargets = [k \in Targets \X (EventNames \cup ChannelEventNames) |-> <<>>]
  /\ registrations = <<>>
  /\ invoked = EmptyMap
  /\ emitted = 0
  /\ busOp = BusOp("constructor", "", "", 0, Bus, <<>>)

StoreInit ==
  /\ state = InitialState
  /\ subscribers = EmptyMap
  /\ middleware = <<>>
  /\ localStorage = EmptyMap
  /\ lastOp = Op("constructor", "", "", Undefined, <<>>, FALSE, "returned")
  /\ log = <<>>

-----------------------------------------------------------------------------

LoaderInit ==
  /\ loadedModules = EmptyMap
  /\ pendingLoads = EmptyMap
  /\ failedLoads = {}
  /\ retryCount = EmptyMap
  /\ imports = <<>>
  /\ calls = <<>>
  /\ batches = <<>>

-----------------------------------------------------------------------------
(* StorageUtils: the prefixed, JSON-encoded localStorage entries.           *)

\* The keys the model stores under and asks for.
StorageKeys == {"test", "non-existent"}

\* this.PREFIX + key, PREFIX being 'oudar-avocats-'.
PrefixedKey(key) ==
  CASE key = "test" -> "oudar-avocats-test"
    [] key = "non-existent" -> "oudar-avocats-non-existent"

\* The values handed to set and setVersioned.
StorageValues == {Str(<<"a">>), Num(<<"1">>), NaN}

\* The version strings handed to setVersioned and getVersioned.
Versions == {Str(<<"1.0.0">>), Str(<<"2.0.0">>), Str(<<>>)}

\* {version, data, timestamp}, the object setVersioned stores.
versionedData(version, value, time) ==
  [t |-> "object", version |-> version, data |-> value, timestamp |-> time]

\* !value
Falsy(value) ==
  \/ value.t \in {"null", "undefined"}
  \/ value = Str(<<>>)
  \/ value = Bool("false")
  \/ value = NaN
  \/ value = Num(<<"0">>)

\* ttl = null, and the ttl: null of a stored entry.
NoTtl == 0

\* The time-to-live arguments of set.
Ttls == {NoTtl, 1}

\* JSON.stringify of a primitive: a string is quoted, NaN is written as null.
literal(value) ==
  CASE value.t = "string" -> <<"\"">> \o value.v \o <<"\"">>
    [] value.t = "number" -> IF value = NaN THEN <<"null">> ELSE value.v
    [] value.t = "boolean" -> value.v
    [] OTHER -> <<"null">>

\* JSON.parse of the text of a primitive.
primitive(text) ==
  CASE text = <<"null">> -> Null
    [] text[1] = "\"" -> Str(SubSeq(text, 2, Len(text) - 1))
    [] text \in {<<"true">>, <<"false">>} -> [t |-> "boolean", v |-> text]
    [] OTHER -> Num(text)

\* JSON.stringify(dataToStore): the text of each property, per nesting level.
stringify(dataToStore) ==
  [value |-> IF dataToStore.value.t = "object"
             THEN [version |-> literal(dataToStore.value.version),
                   data |-> literal(dataToStore.value.data),
                   timestamp |-> dataToStore.value.timestamp]
             ELSE [text |-> literal(dataToStore.value)],
   timestamp |-> dataToStore.timestamp,
   ttl |-> dataToStore.ttl]

\* JSON.parse(storedData)
parse(storedData) ==
  [value |-> IF "version" \in DOMAIN storedData.value
             THEN versionedData(primitive(storedData.value.version),
                                primitive(storedData.value.data),
                                storedData.value.timestamp)
             ELSE primitive(storedData.value.text),
   timestamp |-> storedData.timestamp,
   ttl |-> storedData.ttl]

\* localStorage.setItem(prefixedKey, JSON.stringify(dataToStore))
setItem_Unprefixed(its, key, value, ttl, time) ==
  MapSet(its, key,
         stringify([value |-> value, timestamp |-> time,
                    ttl |-> IF ttl # NoTtl THEN time + ttl ELSE NoTtl]))

setItem(its, key, value, ttl, time) ==
  MapSet(its, PrefixedKey(key),
         stringify([value |-> value, timestamp |-> time,
                    ttl |-> IF ttl # NoTtl THEN time + ttl ELSE NoTtl]))

\* cleanup(): the expired entries are removed.
cleanup(its, time) ==
  LET kept == {k \in DOMAIN its : ~(parse(its[k]).ttl # NoTtl /\ time > parse(its[k]).ttl)}
  IN  [k \in kept |-> its[k]]

\* What localStorage.setItem does when set calls it: it stores; it throws
\* QuotaExceededError and stores on the retry; it throws that on the retry
\* too; it throws another error.
SetOutcomes == {"stored", "retried", "quota", "error"}

\* set(key, value, ttl)
set(its, key, value, ttl, time, outcome) ==
  CASE outcome = "stored" ->
         [items |-> setItem(its, key, value, ttl, time), result |-> TRUE]
    [] outcome = "retried" ->
         [items |-> setItem(cleanup(its, time), key, value, ttl, time), result |-> TRUE]
    [] outcome = "quota" ->
         [items |-> cleanup(its, time), result |-> FALSE]
    [] OTHER ->
         [items |-> its, result |-> FALSE]

\* remove(key)
remove(its, key) == [items |-> MapDelete(its, PrefixedKey(key)), result |-> TRUE]

\* get(key, defaultValue)
get(its, key, defaultValue, time) ==
  LET prefixedKey == PrefixedKey(key) IN
  IF ~MapHas(its, prefixedKey)
  THEN [items |-> its, result |-> defaultValue]
  ELSE LET parsed == parse(its[prefixedKey]) IN
       IF parsed.ttl # NoTtl /\ time > parsed.ttl
       THEN [items |-> remove(its, key).items, result |-> defaultValue]
       ELSE [items |-> its, result |-> parsed.value]

\* has(key)
has(its, key) == MapHas(its, PrefixedKey(key))

\* setVersioned(key, value, version)
setVersioned(its, key, value, version, time, outcome) ==
  set(its, key, versionedData(version, value, time), NoTtl, time, outcome)

\* getVersioned(key, expectedVersion, defaultValue).  A stored value that
\* is not an object is falsy or has no version property.
getVersioned(its, key, expectedVersion, defaultValue, time) ==
  LET got == get(its, key, Null, time)
      storedData == got.result
  IN  IF storedData.t # "object" \/ Falsy(storedData.version)
      THEN [items |-> got.items, result |-> defaultValue]
      ELSE IF storedData.version # expectedVersion
           THEN [items |-> remove(got.items, key).items, result |-> defaultValue]
           ELSE [items |-> got.items, result |-> storedData.data]

\* A StorageUtils call: its arguments, and what it returned.
StorageOp(op, key, value, version, ttl, result) ==
  [op |-> op, key |-> key, value |-> value, version |-> version,
   ttl |-> ttl, result |-> result]

NoStorageOp == StorageOp("none", "test", Null, Null, NoTtl, Null)

\* The default value the model hands to get and getVersioned.
Default == Str(<<"default">>)

\* A millisecond passes.
Tick ==
  /\ clock < MaxTime
  /\ clock' = clock + 1
  /\ UNCHANGED <<items, storageOp, debounced, throttled, cache, cacheOp>>
  /\ UNCHANGED <<loaderVars, storeVars, eventVars, appVars>>

StorageSet(key, value, ttl, outcome) ==
  LET r == set(items, key, value, ttl, clock, outcome) IN
  /\ items' = r.items
  /\ storageOp' = StorageOp("set", key, value, Null, ttl, Bool(IF r.result THEN "true" ELSE "false"))
  /\ UNCHANGED <<clock, debounced, throttled, cache, cacheOp>>
  /\ UNCHANGED <<loaderVars, storeVars, eventVars, appVars>>

StorageGet(key, defaultValue) ==
  LET r == get(items, key, defaultValue, clock) IN
  /\ items' = r.items
  /\ storageOp' = StorageOp("get", key, defaultValue, Null, NoTtl, r.result)
  /\ UNCHANGED <<clock, debounced, throttled, cache, cacheOp>>
  /\ UNCHANGED <<loaderVars, storeVars, eventVars, appVars>>

StorageRemove(key) ==
  /\ items' = remove(items, key).items
  /\ storageOp' = StorageOp("remove", key, Null, Null, NoTtl, Bool("true"))
  /\ UNCHANGED <<clock, debounced, throttled, cache, cacheOp>>
  /\ UNCHANGED <<loaderVars, storeVars, eventVars, appVars>>

StorageHas(key) ==
  /\ storageOp' = StorageOp("has", key, Null, Null, NoTtl,
                            Bool(IF has(items, key) THEN "true" ELSE "false"))
  /\ UNCHANGED <<clock, items, debounced, throttled, cache, cacheOp>>
  /\ UNCHANGED <<loaderVars, storeVars, eventVars, appVars>>

SetVersioned(key, value, version, outcome) ==
  LET r == setVersioned(items, key, value, version, clock, outcome) IN
  /\ items' = r.items
  /\ storageOp' = StorageOp("setVersioned", key, value, version, NoTtl,
                            Bool(IF r.result THEN "true" ELSE "false"))
  /\ UNCHANGED <<clock, debounced, throttled, cache, cacheOp>>
  /\ UNCHANGED <<loaderVars, storeVars, eventVars, appVars>>

GetVersioned(key, expectedVersion, defaultValue) ==
  LET r == getVersioned(items, key, expectedVersion, defaultValue, clock) IN
  /\ items' = r.items
  /\ storageOp' = StorageOp("getVersioned", key, defaultValue, expectedVersion, NoTtl, r.result)
  /\ UNCHANGED <<clock, debounced, throttled, cache, cacheOp>>
  /\ UNCHANGED <<loaderVars, storeVars, eventVars, appVars>>

-----------------------------------------------------------------------------
(* PerformanceUtils: debounce, throttle and the expiring cache.  A timer    *)
(* set with setTimeout runs at its due time or later, never before.         *)

\* The wait of a debounce, the limit of a throttle, the ttl of a cache.
Delays == {1, 2}

\* The arguments the wrapped functions are called with.
Args == {"a", "b"}

\* No timer is set: timeout is undefined or null.
NoTimeout == [pending |-> FALSE, due |-> 0, args |-> "none"]

\* Before PerformanceUtils.debounce is called.
NoDebounced ==
  [created |-> FALSE, wait |-> 0, immediate |-> FALSE, timeout |-> NoTimeout,
   calls |-> <<>>, executed |-> <<>>]

\* debounce(func, wait, immediate): the closure, with the calls made to it
\* and the executions of func on record.
debounce(wait, immediate) ==
  [NoDebounced EXCEPT !.created = TRUE, !.wait = wait, !.immediate = immediate]

\* func.apply(this, args), on record with the number of calls made so far.
apply(d, args, time, made) ==
  Append(d.executed, [at |-> time, args |-> args, call |-> made])

\* executedFunction(...args)
executedFunction_KeepsTimer(d, args, time) ==
  LET callNow == d.immediate /\ ~d.timeout.pending IN
  [d EXCEPT !.timeout = IF @.pending THEN @
                        ELSE [pending |-> TRUE, due |-> time + d.wait, args |-> args],
            !.calls = Append(@, [at |-> time, args |-> args]),
            !.executed = IF callNow THEN apply(d, args, time, Len(d.calls) + 1) ELSE @]

executedFunction(d, args, time) ==
  LET callNow == d.immediate /\ ~d.timeout.pending IN
  [d EXCEPT !.timeout = [pending |-> TRUE, due |-> time + d.wait, args |-> args],
            !.calls = Append(@, [at |-> time, args |-> args]),
            !.executed = IF callNow THEN apply(d, args, time, Len(d.calls) + 1) ELSE @]

\* later(), the timer's callback, with the args of the call that set it.
later(d, time) ==
  [d EXCEPT !.timeout = NoTimeout,
            !.executed = IF ~d.immediate
                         THEN apply(d, d.timeout.args, time, Len(d.calls))
                         ELSE @]

Debounce(wait, immediate) ==
  /\ ~debounced.created
  /\ debounced' = debounce(wait, immediate)
  /\ UNCHANGED <<clock, items, storageOp, throttled, cache, cacheOp>>
  /\ UNCHANGED <<loaderVars, storeVars, eventVars, appVars>>

DebouncedCall(args) ==
  /\ debounced.created
  /\ Len(debounced.calls) < MaxBurst
  /\ clock + debounced.wait <= MaxTime
  /\ debounced' = executedFunction(debounced, args, clock)
  /\ UNCHANGED <<clock, items, storageOp, throttled, cache, cacheOp>>
  /\ UNCHANGED <<loaderVars, storeVars, eventVars, appVars>>

DebounceTimer ==
  /\ debounced.timeout.pending
  /\ clock >= debounced.timeout.due
  /\ debounced' = later(debounced, clock)
  /\ UNCHANGED <<clock, items, storageOp, throttled, cache, cacheOp>>
  /\ UNCHANGED <<loaderVars, storeVars, eventVars, appVars>>

\* Before PerformanceUtils.throttle is called.
NoThrottled ==
  [created |-> FALSE, limit |-> 0, inThrottle |-> FALSE, timer |-> NoTimeout,
   calls |-> <<>>, resets |-> <<>>]

\* throttle(func, limit): the closure, with the calls made to it and the
\* times its timer ran on record.
throttle(limit) == [NoThrottled EXCEPT !.created = TRUE, !.limit = limit]

\* function(...args), the throttled function.  Each call is on record with
\* whether func ran and how many times the timer had run by then.
throttledFunction_NoLimit(t, args, time) ==
  LET call == [at |-> time, args |-> args, ran |-> ~t.inThrottle, resets |-> Len(t.resets)] IN
  IF ~t.inThrottle
  THEN [t EXCEPT !.inThrottle = TRUE,
                 !.timer = [pending |-> TRUE, due |-> time, args |-> "none"],
                 !.calls = Append(@, call)]
  ELSE [t EXCEPT !.calls = Append(@, call)]

throttledFunction(t, args, time) ==
  LET call == [at |-> time, args |-> args, ran |-> ~t.inThrottle, resets |-> Len(t.resets)] IN
  IF ~t.inThrottle
  THEN [t EXCEPT !.inThrottle = TRUE,
                 !.timer = [pending |-> TRUE, due |-> time + t.limit, args |-> "none"],
                 !.calls = Append(@, call)]
  ELSE [t EXCEPT !.calls = Append(@, call)]

\* () => inThrottle = false, the timer's callback.
release(t, time) ==
  [t EXCEPT !.inThrottle = FALSE, !.timer = NoTimeout, !.resets = Append(@, time)]

Throttle(limit) ==
  /\ ~throttled.created
  /\ throttled' = throttle(limit)
  /\ UNCHANGED <<clock, items, storageOp, debounced, cache, cacheOp>>
  /\ UNCHANGED <<loaderVars, storeVars, eventVars, appVars>>

ThrottledCall(args) ==
  /\ throttled.created
  /\ Len(throttled.calls) < MaxBurst
  /\ throttled' = throttledFunction(throttled, args, clock)
  /\ UNCHANGED <<clock, items, storageOp, debounced, cache, cacheOp>>
  /\ UNCHANGED <<loaderVars, storeVars, eventVars, appVars>>

ThrottleTimer ==
  /\ throttled.timer.pending
  /\ clock >= throttled.timer.due
  /\ throttled' = release(throttled, clock)
  /\ UNCHANGED <<clock, items, storageOp, debounced, cache, cacheOp>>
  /\ UNCHANGED <<loaderVars, storeVars, eventVars, appVars>>

\* The keys and values the model caches.
CacheKeys == {"test-key", "non-existent"}

CacheValues == {Str(<<"test-value">>), Str(<<"other">>)}

\* Before PerformanceUtils.createCache is called.
NoCache == [created |-> FALSE, ttl |-> 0, entries |-> EmptyMap]

\* createCache(ttl): the closure's ttl and its Map.
createCache(ttl) == [NoCache EXCEPT !.created = TRUE, !.ttl = ttl]

\* get(key): the method takes one parameter.
cacheGet(c, key, time) ==
  IF ~MapHas(c.entries, key)
  THEN [cache |-> c, result |-> Null]
  ELSE IF time > c.entries[key].expires
       THEN [cache |-> [c EXCEPT !.entries = MapDelete(@, key)], result |-> Null]
       ELSE [cache |-> c, result |-> c.entries[key].value]

\* set(key, value)
cacheSet(c, key, value, time) ==
  [c EXCEPT !.entries = MapSet(@, key, [value |-> value, expires |-> time + c.ttl,
                                        created |-> time])]

\* delete(key)
cacheDelete(c, key) ==
  [cache |-> [c EXCEPT !.entries = MapDelete(@, key)], result |-> MapHas(c.entries, key)]

\* clear()
cacheClear(c) == [c EXCEPT !.entries = EmptyMap]

\* stats(): the size and the keys of the Map.
cacheStats(c) == [size |-> Cardinality(DOMAIN c.entries), entries |-> DOMAIN c.entries]

\* A call on the cache: its arguments, and what it returned.
CacheOp(op, key, value, result) == [op |-> op, key |-> key, value |-> value, result |-> result]

NoCacheOp == CacheOp("none", "test-key", Null, Null)

CreateCache(ttl) ==
  /\ ~cache.created
  /\ cache' = createCache(ttl)
  /\ cacheOp' = CacheOp("createCache", "test-key", Null, Null)
  /\ UNCHANGED <<clock, items, storageOp, debounced, throttled>>
  /\ UNCHANGED <<loaderVars, storeVars, eventVars, appVars>>

\* get(key, defaultValue): the second argument is handed over and dropped.
CacheGet(key, defaultValue) ==
  LET r == cacheGet(cache, key, clock) IN
  /\ cache.created
  /\ cache' = r.cache
  /\ cacheOp' = CacheOp("get", key, defaultValue, r.result)
  /\ UNCHANGED <<clock, items, storageOp, debounced, throttled>>
  /\ UNCHANGED <<loaderVars, storeVars, eventVars, appVars>>

CacheSet(key, value) ==
  /\ cache.created
  /\ cache' = cacheSet(cache, key, value, clock)
  /\ cacheOp' = CacheOp("set", key, value, Undefined)
  /\ UNCHANGED <<clock, items, storageOp, debounced, throttled>>
  /\ UNCHANGED <<loaderVars, storeVars, eventVars, appVars>>

CacheDelete(key) ==
  LET r == cacheDelete(cache, key) IN
  /\ cache.created
  /\ cache' = r.cache
  /\ cacheOp' = CacheOp("delete", key, Null, Bool(IF r.result THEN "true" ELSE "false"))
  /\ UNCHANGED <<clock, items, storageOp, debounced, throttled>>
  /\ UNCHANGED <<loaderVars, storeVars, eventVars, appVars>>

CacheClear ==
  /\ cache.created
  /\ cache' = cacheClear(cache)
  /\ cacheOp' = CacheOp("clear", "test-key", Null, Undefined)
  /\ UNCHANGED <<clock, items, storageOp, debounced, throttled>>
  /\ UNCHANGED <<loaderVars, storeVars, eventVars, appVars>>

CacheStats ==
  /\ cache.created
  /\ cacheOp' = CacheOp("stats", "test-key", Null, cacheStats(cache))
  /\ UNCHANGED <<clock, cache, items, storageOp, debounced, throttled>>
  /\ UNCHANGED <<loaderVars, storeVars, eventVars, appVars>>

UtilInit ==
  /\ clock = 1
  /\ items = EmptyMap
  /\ storageOp = NoStorageOp
  /\ debounced = NoDebounced
  /\ throttled = NoThrottled
  /\ cache = NoCache
  /\ cacheOp = NoCacheOp

-----------------------------------------------------------------------------
(* LazyLoader.prefetchForPage.  A URL or path is the sequence of its parts *)
(* between slashes.  The timer's delay is not measured: its callback runs  *)
(* at some step after prefetchForPage returned.                            *)

\* The site's origin, split at its slashes.
Origin == <<"https:", "", "oudar-avocats.fr">>

\* link.href of the links whose hovering calls prefetchForPage.
NextPages == {Origin \o <<page>> : page \in Pages} \cup {<<"consultation.html">>}

\* path.split('/').pop() || 'index.html'
pageNameOf(path) ==
  IF path[Len(path)] = "" THEN "index.html" ELSE path[Len(path)]

\* prefetchForPage(nextPage): computes pageName and sets the timer.
PrefetchForPage(nextPage) ==
  /\ Len(prefetches) < MaxPrefetches
  /\ prefetches' = Append(prefetches, pageNameOf(nextPage))
  /\ UNCHANGED <<window, app, loaderVars, storeVars, eventVars, utilVars>>

\* The timer's callback: returns when the window is on pageName, and calls
\* loadPageSpecificModules() otherwise, which reads the window's location.
PrefetchTimer ==
  LET pageName == Head(prefetches)
      currentPage == pageNameOf(window.pathname)
      modules == pageModules(currentPage)
  IN /\ prefetches # <<>>
     /\ prefetches' = Tail(prefetches)
     /\ IF currentPage = pageName
          THEN UNCHANGED loaderVars
          ELSE /\ Len(batches) < MaxBatches
               /\ Len(calls) + Len(modules) <= MaxCalls
               /\ Install(loadAll(LoaderState, modules))
               /\ batches' = Append(batches, Batch("page", Len(calls) + 1, Len(modules), TRUE))
     /\ UNCHANGED <<window, app, storeVars, eventVars, utilVars>>

-----------------------------------------------------------------------------
(* OudarAvocatsApp.init and the module's entry points.  A call of init is  *)
(* a run: it awaits its phases one after the other, and other handlers run *)
(* while it waits.                                                         *)

\* The phases init() awaits, in order.
Phases ==
  <<"loadCoreModules", "setupGlobalEventListeners", "initializeBaseFeatures",
    "initializePageSpecificFeatures", "setupOptimizations", "finalizeBoot">>

\* The events whose handlers call app.init(): DOMContentLoaded (or the
\* direct call when the DOM is already loaded), load, and a pageshow with
\* event.persisted.
Triggers == {"DOMContentLoaded", "load", "pageshow"}

Run(trigger, phase, status) == [trigger |-> trigger, phase |-> phase, status |-> status]

\* The triggers that have fired so far.
Fired(a) == {a.runs[i].trigger : i \in 1..Len(a.runs)}

\* init(), up to its first await: returns when isInitialized, and otherwise
\* calls loadCoreModules, which awaits its first import.
init(a, trigger) ==
  IF a.isInitialized
    THEN [a EXCEPT !.runs = Append(@, Run(trigger, 0, "returned"))]
    ELSE [a EXCEPT !.runs = Append(@, Run(trigger, 1, "awaiting"))]

\* The promise run i awaits fulfils and init() goes on to its next await.
\* loadCoreModules has initialised the core modules when it fulfils, and
\* setupGlobalEventListeners adds its listeners before init() awaits it.
resume(a, i) ==
  LET phase == a.runs[i].phase IN
  IF phase = 1
    THEN [a EXCEPT !.coreInits = @ + 1, !.listeners = @ + 1, !.runs[i].phase = 2]
  ELSE IF phase < Len(Phases)
    THEN [a EXCEPT !.runs[i].phase = phase + 1]
  ELSE [a EXCEPT !.isInitialized = TRUE, !.runs[i].status = "initialized"]

\* An import of loadCoreModules rejects: loadCoreModules rethrows and init()
\* ends in its catch block.
abort(a, i) == [a EXCEPT !.runs[i].status = "failed"]

InitCall(trigger) ==
  /\ trigger \notin Fired(app)
  /\ trigger = "DOMContentLoaded" => "load" \notin Fired(app)
  /\ trigger = "pageshow" => "load" \in Fired(app)
  /\ app' = init(app, trigger)
  /\ UNCHANGED <<window, prefetches, loaderVars, storeVars, eventVars, utilVars>>

PhaseFulfils(i) ==
  /\ app.runs[i].status = "awaiting"
  /\ app' = resume(app, i)
  /\ UNCHANGED <<window, prefetches, loaderVars, storeVars, eventVars, utilVars>>

PhaseRejects(i) ==
  /\ app.runs[i].status = "awaiting"
  /\ app.runs[i].phase = 1
  /\ app' = abort(app, i)
  /\ UNCHANGED <<window, prefetches, loaderVars, storeVars, eventVars, utilVars>>

-----------------------------------------------------------------------------
(* The window's resize event.  Two listeners hear it, in the order they    *)
(* were added: updateViewport of the StateManager, added by its            *)
(* constructor, and the debounced handleResize of the application, added   *)
(* by setupGlobalEventListeners.                                           *)

\* The widths and heights the window is resized to, on both sides of the
\* mobile breakpoint.
Extents == {MOBILE, MOBILE + 1}

ViewportKeys == {"viewportWidth", "viewportHeight", "isMobile"}

\* { viewportWidth, viewportHeight, isMobile } as both listeners build it
\* from the window, in the order of Object.entries.
viewportUpdates(w) ==
  <<<<"viewportWidth", Num(digits(w.innerWidth))>>,
    <<"viewportHeight", Num(digits(w.innerHeight))>>,
    <<"isMobile", belowBreakpoint(w)>>>>

\* The entries of viewportUpdates that a resize from window w to v changes.
resized(w, v) ==
  SelectSeq(viewportUpdates(v), LAMBDA e : \A i \in 1..3 : viewportUpdates(w)[i] # e)

\* updateViewport(): setMultipleStates({...}, false)
updateViewport(st, chain, w) == setMultipleStates(st, chain, viewportUpdates(w), FALSE)

\* handleResize(): setMultipleStates({...})
handleResize(st, chain, w) == setMultipleStates(st, chain, viewportUpdates(w), TRUE)

\* The window is resized and dispatches resize: updateViewport runs, then
\* the debounced handleResize is called when the application has added it.
Resize(width, height) ==
  LET w == [window EXCEPT !.innerWidth = width, !.innerHeight = height]
      st == updateViewport(StoreState, middleware, w)
  IN /\ w # window
     /\ Len(debounced.calls) < MaxBurst
     /\ debounced.created => clock + debounced.wait <= MaxTime
     /\ window' = w
     /\ InstallStore(st)
     /\ lastOp' = Op("resize", "", "", Undefined, resized(window, w), FALSE, st.outcome)
     /\ debounced' = IF debounced.created
                       THEN executedFunction(debounced, "resize", clock)
                       ELSE debounced
     /\ UNCHANGED <<middleware, clock, items, storageOp, throttled, cache, cacheOp>>
     /\ UNCHANGED <<app, prefetches, loaderVars, eventVars>>

\* The debounce timer fires: later() calls handleResize.
ResizeTimer ==
  LET st == handleResize(StoreState, middleware, window) IN
  /\ debounced.timeout.pending
  /\ clock >= debounced.timeout.due
  /\ debounced' = later(debounced, clock)
  /\ InstallStore(st)
  /\ lastOp' = Op("handleResize", "", "", Undefined, viewportUpdates(window), TRUE, st.outcome)
  /\ UNCHANGED <<middleware, clock, items, storageOp, throttled, cache, cacheOp>>
  /\ UNCHANGED <<window, app, prefetches, loaderVars, eventVars>>

\* new OudarAvocatsApp(), before any init() call; no prefetch timer is set.
NoApp == [isInitialized |-> FALSE, runs |-> <<>>, listeners |-> 0, coreInits |-> 0]

AppInit ==
  /\ window = InitialWindow
  /\ app = NoApp
  /\ prefetches = <<>>

Init == LoaderInit /\ StoreInit /\ EventInit /\ UtilInit /\ AppInit

Next ==
  \/ \E moduleName \in DirectNames, condition \in BOOLEAN : LoadModule(moduleName, condition)
  \/ \E moduleName \in DirectNames : RetryModule(moduleName)
  \/ \E d \in 1..Len(imports) : ImportFulfils(d)
  \/ \E d \in 1..Len(imports) : ImportRejects(d)
  \/ Cleanup

Spec == Init /\ [][Next]_vars

\* The loader with an importer that always fails, driven by the automatic
\* load paths only: direct, route, viewport and interaction loads.
NextReject ==
  \/ \E moduleName \in RejectNames, condition \in BOOLEAN : LoadModule(moduleName, condition)
  \/ \E currentPage \in Pages : LoadPageSpecificModules(currentPage)
  \/ \E isMobile \in BOOLEAN : LoadViewportSpecificModules(isMobile)
  \/ \E interaction \in Interactions : LoadOnInteraction(interaction)
  \/ \E d \in 1..Len(imports) : ImportRejects(d)

SpecReject == Init /\ [][NextReject]_vars

\* The preload of the critical modules next to direct loads of one of them;
\* imports fulfil or reject.
NextPreload ==
  \/ \E moduleName \in PreloadNames : LoadModule(moduleName, TRUE)
  \/ PreloadCriticalModules
  \/ \E d \in 1..Len(imports) : ImportFulfils(d)
  \/ \E d \in 1..Len(imports) : ImportRejects(d)

\* An import promise in flight settles.
ImportSettles == \E d \in 1..Len(imports) : ImportFulfils(d) \/ ImportRejects(d)

\* Every import that is in flight eventually settles.
SpecPreload == Init /\ [][NextPreload]_vars /\ WF_vars(ImportSettles)

\* The state manager without middleware, with every kind of callback
\* subscribing to and unsubscribing from one key.
NextStore ==
  \/ \E key \in StoreKeys, value \in Values, notify \in BOOLEAN : SetState(key, value, notify)
  \/ \E updates \in Updates, notify \in BOOLEAN : SetMultipleStates(updates, notify)
  \/ \E cb \in Callbacks : Subscribe("name", cb)
  \/ \E cb \in Callbacks : Unsubscribe("name", cb)
  \/ Reset

SpecStore == Init /\ [][NextStore]_vars

\* The state manager with middleware, with a reading callback on either key.
NextMiddleware ==
  \/ \E key \in StoreKeys, value \in Values, notify \in BOOLEAN : SetState(key, value, notify)
  \/ \E updates \in Updates, notify \in BOOLEAN : SetMultipleStates(updates, notify)
  \/ \E key \in StoreKeys : Subscribe(key, "reader")
  \/ \E key \in StoreKeys : Unsubscribe(key, "reader")
  \/ \E m \in Middlewares : AddMiddleware(m)

SpecMiddleware == Init /\ [][NextMiddleware]_vars

\* The state manager with callbacks that call setState while they are
\* notified, next to one that only reads.
NextReentrant ==
  \/ \E key \in StoreKeys, value \in Values : SetState(key, value, TRUE)
  \/ \E updates \in Updates : SetMultipleStates(updates, TRUE)
  \/ \E key \in StoreKeys, cb \in ReentrantCallbacks \cup {"reader"} : Subscribe(key, cb)
  \/ \E key \in StoreKeys, cb \in ReentrantCallbacks \cup {"reader"} : Unsubscribe(key, cb)

SpecReentrant == Init /\ [][NextReentrant]_vars

\* The emit calls made while listeners are registered: to both targets, of
\* both names, of a name that cannot be converted and to a missing target.
EmitInputs ==
  {<<"x", "window">>, <<"x", "form">>, <<"y", "window">>,
   <<SymbolName, "window">>, <<"x", NoTarget>>}

\* The on calls made: one name on both targets, the other name on window.
OnInputs == {<<"x", "window">>, <<"x", "form">>, <<"y", "window">>}

\* The event manager with listeners: a few registrations and emits.
NextEvents ==
  \/ \E input \in EmitInputs : Emit(input[1], Null, input[2], MaxDispatches)
  \/ \E input \in OnInputs : On(input[1], "handler", input[2])
  \/ \E handler \in Handlers : Once("x", handler, "window")
  \/ \E eventName \in EventNames : Off(eventName)
  \/ Destroy

SpecEvents == Init /\ [][NextEvents]_vars

\* A channel next to the bus: the channel's four operations for one event,
\* and the bus's own on and emit for the prefixed and the bare name.
NextChannel ==
  \/ \E namespace \in Namespaces, target \in Targets : ChannelEmit(namespace, "x", Null, target)
  \/ \E namespace \in Namespaces, target \in Targets : ChannelOn(namespace, "x", "handler", target)
  \/ \E namespace \in Namespaces : ChannelOnce(namespace, "x", "thrower", "window")
  \/ \E namespace \in Namespaces : ChannelOff(namespace, "x")
  \/ \E eventName \in {"x", Prefixed("ui", "x")} : On(eventName, "handler", "window")
  \/ \E eventName \in {"x", Prefixed("ui", "x")} : Emit(eventName, Null, "window", MaxDispatches)

SpecChannel == Init /\ [][NextChannel]_vars

\* StorageUtils under one key that is written and one that never is, with
\* the clock running.
NextStorage ==
  \/ \E value \in StorageValues, ttl \in Ttls, outcome \in SetOutcomes :
       StorageSet("test", value, ttl, outcome)
  \/ \E key \in StorageKeys : StorageGet(key, Null)
  \/ \E key \in StorageKeys : StorageRemove(key)
  \/ \E key \in StorageKeys : StorageHas(key)
  \/ \E value \in StorageValues, version \in Versions, outcome \in SetOutcomes :
       SetVersioned("test", value, version, outcome)
  \/ \E expectedVersion \in Versions : GetVersioned("test", expectedVersion, Default)
  \/ Tick

SpecStorage == Init /\ [][NextStorage]_vars

\* One debounced function, called while the clock runs.
NextDebounce ==
  \/ \E wait \in Delays, immediate \in BOOLEAN : Debounce(wait, immediate)
  \/ \E args \in Args : DebouncedCall(args)
  \/ DebounceTimer
  \/ Tick

\* Time passes, and a timer that is due eventually runs.
SpecDebounce ==
  Init /\ [][NextDebounce]_vars /\ WF_vars(Tick) /\ WF_vars(DebounceTimer)

\* One throttled function, called while the clock runs.
NextThrottle ==
  \/ \E limit \in Delays : Throttle(limit)
  \/ \E args \in Args : ThrottledCall(args)
  \/ ThrottleTimer
  \/ Tick

SpecThrottle == Init /\ [][NextThrottle]_vars

\* One cache, with the clock running.
NextCache ==
  \/ \E ttl \in Delays : CreateCache(ttl)
  \/ \E key \in CacheKeys, defaultValue \in {Null, Default} : CacheGet(key, defaultValue)
  \/ \E value \in CacheValues : CacheSet("test-key", value)
  \/ \E key \in CacheKeys : CacheDelete(key)
  \/ CacheClear
  \/ CacheStats
  \/ Tick

SpecCache == Init /\ [][NextCache]_vars

\* The event manager's history: emits to window, which has no listeners,
\* beyond maxHistorySize; the first MaxDispatches emits take either name.
NextHistory ==
  \/ \E eventName \in (IF emitted < MaxDispatches THEN EventNames ELSE {"x"}) :
       Emit(eventName, Null, "window", MaxEmits)
  \/ \E limit \in Limits : GetHistory(limit)
  \/ \E eventName \in EventNames, limit \in Limits : GetHistoryFor(eventName, limit)

SpecHistory == Init /\ [][NextHistory]_vars

\* Once-handlers of one event, returning and throwing, and repeated emits of it.
NextOnce ==
  \/ \E handler \in Handlers, target \in Targets : Once("x", handler, target)
  \/ \E target \in Targets : Emit("x", Null, target, MaxRepeats)

SpecOnce == Init /\ [][NextOnce]_vars

\* Links are hovered, the prefetch timers fire and the imports settle.
NextPrefetch ==
  \/ \E nextPage \in NextPages : PrefetchForPage(nextPage)
  \/ PrefetchTimer
  \/ \E d \in 1..Len(imports) : ImportFulfils(d)
  \/ \E d \in 1..Len(imports) : ImportRejects(d)

SpecPrefetch == Init /\ [][NextPrefetch]_vars

\* The entry points fire and the init() runs go through their phases.
NextBoot ==
  \/ \E trigger \in Triggers : InitCall(trigger)
  \/ \E i \in 1..Len(app.runs) : PhaseFulfils(i)
  \/ \E i \in 1..Len(app.runs) : PhaseRejects(i)

SpecBoot == Init /\ [][NextBoot]_vars

\* The application adds its debounced resize listener, modules subscribe to
\* the viewport keys, the window is resized and time passes.
NextResize ==
  \/ \E wait \in Delays : Debounce(wait, FALSE)
  \/ \E key \in ViewportKeys : Subscribe(key, "reader")
  \/ \E width \in Extents, height \in Extents : Resize(width, height)
  \/ ResizeTimer
  \/ Tick

\* The debounce timer is set and its time has come.
TimerDue == debounced.timeout.pending /\ clock >= debounced.timeout.due

\* Time passes, and a timer that is due fires: weak fairness of Tick and of
\* ResizeTimer, the latter written out with TimerDue for its enabling
\* condition (a ResizeTimer step always clears the timer, so it never
\* stutters).
SpecResize ==
  /\ Init /\ [][NextResize]_vars
  /\ WF_vars(Tick)
  /\ ([]<>~TimerDue \/ []<><<ResizeTimer>>_vars)

-----------------------------------------------------------------------------
(* Observations on the loader's promises.                                  *)

\* How often moduleMap's importer for name was invoked.
LoaderInvocations(name) ==
  Cardinality({d \in 1..Len(imports) : imports[d].name = name /\ imports[d].importer})

\* The load attempts of name that failed: loadModule calls that ran the
\* importer and returned null from their catch block.
FailedLoadCalls(name) ==
  Cardinality({i \in 1..Len(calls) :
                 calls[i].name = name /\ calls[i].kind = "fetch" /\ calls[i].result = "null"})

\* The calls made by the step being taken.
NewCalls == (Len(calls) + 1)..Len(calls')

-----------------------------------------------------------------------------
(* C1: every loadModule(name) call made while an earlier load of name is   *)
(* unresolved gets the same future as the first call (so the two settle    *)
(* alike), and the importer of name is not invoked again before that load  *)
(* settles (no two import promises of one name are in flight together).    *)
C1_SharedInFlightLoad ==
  /\ \A i, j \in 1..Len(calls) :
        (calls[i].imp # 0 /\ calls[i].imp = calls[j].imp) => calls[i].result = calls[j].result
  /\ \A d, e \in 1..Len(imports) :
        (d # e /\ imports[d].status = "inflight" /\ imports[e].status = "inflight")
          => imports[d].name # imports[e].name

(* C2: every loadModule call settles with the module or with null, never   *)
(* with a rejection: the call that started the fetch, the calls joined to  *)
(* an in-flight load, and calls for names that moduleMap does not have.    *)
C2_NeverRejects ==
  \A i \in 1..Len(calls) : calls[i].result \in {"pending", "module", "null"}

(* C3: with an importer that always fails, once MAX_RETRIES load attempts  *)
(* of a name have failed, every further direct, route, viewport or         *)
(* interaction load of it returns null without invoking the importer, and  *)
(* the importer is invoked at most MAX_RETRIES times for the name.         *)
C3_RetryCeiling ==
  /\ [](\A name \in ModuleNames : LoaderInvocations(name) <= MAX_RETRIES)
  /\ [][\A name \in ModuleNames :
          FailedLoadCalls(name) >= MAX_RETRIES =>
            /\ LoaderInvocations(name)' = LoaderInvocations(name)
            /\ \A i \in NewCalls : calls'[i].name = name => calls'[i].result = "null"]_vars

\* A route load that, after MAX_RETRIES failed loads of its module, got the
\* skipped (null) call.
C3_Witness ==
  \E b \in 1..Len(batches) : \E i \in batches[b].members :
    /\ calls[i].kind = "skipped"
    /\ calls[i].result = "null"
    /\ FailedLoadCalls(calls[i].name) = MAX_RETRIES
    /\ LoaderInvocations(calls[i].name) = MAX_RETRIES

-----------------------------------------------------------------------------
(* Observations on one StateManager call: s0 and s1 are the state object   *)
(* before and after it, L its log.                                         *)

SubscribersOf(subs, key) == IF MapHas(subs, key) THEN Range(subs[key]) ELSE {}

WritesIn(L) == {i \in 1..Len(L) : L[i].type = "write"}

NotifiesIn(L) == {i \in 1..Len(L) : L[i].type = "notify"}

NotifiesOf(L, cb, key) == {i \in NotifiesIn(L) : L[i].cb = cb /\ L[i].key = key}

KeysOf(updates) == {updates[i][1] : i \in 1..Len(updates)}

PositionOf(updates, key) == CHOOSE i \in 1..Len(updates) : updates[i][1] = key

\* The chain's output computed from its last middleware backwards: the n-th
\* middleware receives the key, the output of the n-1 before it, and the
\* value stored before the write.
RECURSIVE ChainOutput(_, _, _, _)
ChainOutput(n, key, value, stored) ==
  IF n = 0 THEN value
  ELSE LET input == ChainOutput(n - 1, key, value, stored)
       IN IF input = Thrown THEN Thrown
          ELSE runMiddleware(middleware[n], key, input, stored)

\* A setMultipleStates call that returned wrote every key before it invoked
\* any subscriber, notified each subscriber of each changed key once, in the
\* order of the updates, with every key of the update already new.
WritesThenNotifies(s0, s1, subs, L, op) ==
  LET changed == {k \in KeysOf(op.updates) : getState(s0, k) # getState(s1, k)}
  IN /\ {L[i].key : i \in WritesIn(L)} = KeysOf(op.updates)
     /\ \A i \in WritesIn(L), j \in NotifiesIn(L) : i < j
     /\ \A j \in NotifiesIn(L) :
          /\ op.notify
          /\ L[j].key \in changed
          /\ L[j].cb \in SubscribersOf(subs, L[j].key)
          /\ L[j].newValue = getState(s1, L[j].key)
          /\ L[j].oldValue = getState(s0, L[j].key)
          /\ \A k \in KeysOf(op.updates) : getState(L[j].seen, k) = getState(s1, k)
     /\ op.notify =>
          \A k \in changed : \A cb \in SubscribersOf(subs, k) :
            Cardinality(NotifiesOf(L, cb, k)) = 1
     /\ \A i, j \in NotifiesIn(L) :
          i < j => PositionOf(op.updates, L[i].key) <= PositionOf(op.updates, L[j].key)

IsReturned(op, name) == op.op = name /\ op.outcome = "returned"

(* C4 as stated: setMultipleStates writes every key before any subscriber  *)
(* runs, notifies the subscribers of each changed key once in iteration    *)
(* order with the other keys already new, and afterwards getState returns  *)
(* the supplied value for every key.                                       *)
C4_SuppliedValuesStored ==
  [][IsReturned(lastOp', "setMultipleStates") =>
       /\ WritesThenNotifies(state, state', subscribers', log', lastOp')
       /\ \A i \in 1..Len(lastOp'.updates) :
            getState(state', lastOp'.updates[i][1]) = lastOp'.updates[i][2]]_vars

(* C4 amended: as above, but afterwards getState returns for every key the *)
(* output of the middleware chain for the supplied value, which is the     *)
(* supplied value itself when no middleware is registered.                 *)
C4_ProcessedValuesStored ==
  [][IsReturned(lastOp', "setMultipleStates") =>
       /\ WritesThenNotifies(state, state', subscribers', log', lastOp')
       /\ \A i \in 1..Len(lastOp'.updates) :
            LET key == lastOp'.updates[i][1]
                value == lastOp'.updates[i][2]
            IN /\ getState(state', key)
                    = ChainOutput(Len(middleware), key, value, getState(state, key))
               /\ middleware = <<>> => getState(state', key) = value]_vars

\* setMultipleStates returned after changing both keys under a trimming
\* middleware and notifying the reader of each key, each seeing both new values.
C4_Witness ==
  /\ IsReturned(lastOp, "setMultipleStates")
  /\ lastOp.notify
  /\ "trim" \in Range(middleware)
  /\ \E i \in 1..Len(lastOp.updates) : lastOp.updates[i] = <<"name", Str(PaddedAlice)>>
  /\ state["name"] = Str(Alice)
  /\ Cardinality(NotifiesIn(log)) = 2
  /\ \A k \in StoreKeys : \E j \in NotifiesOf(log, "reader", k) :
       \A other \in StoreKeys : log[j].seen[other] = state[other]

DependsOnStored(m) == m = "toggle"

(* C6 as stated: whatever middleware is registered, the second of two      *)
(* consecutive setState(k, v) calls with the same v notifies nobody.       *)
C6_SecondCallSilent ==
  [][(/\ lastOp.op = "setState" /\ lastOp'.op = "setState"
      /\ lastOp.notify /\ lastOp'.notify
      /\ lastOp'.key = lastOp.key /\ lastOp'.value = lastOp.value)
       => NotifiesIn(log') = {}]_vars

(* C6 amended: when no registered middleware makes its result depend on    *)
(* the previously stored value, the second of two consecutive              *)
(* setState(k, v) calls with the same v notifies nobody.                   *)
C6_SecondCallSilentPure ==
  [][(/\ lastOp.op = "setState" /\ lastOp'.op = "setState"
      /\ lastOp.notify /\ lastOp'.notify
      /\ lastOp'.key = lastOp.key /\ lastOp'.value = lastOp.value
      /\ \A m \in Range(middleware) : ~DependsOnStored(m))
       => NotifiesIn(log') = {}]_vars

\* The second setState(k, v) has run with a reader subscribed to k: its
\* write found the value already stored and notified nobody.
C6_Witness ==
  /\ IsReturned(lastOp, "setState")
  /\ lastOp.notify
  /\ \A m \in Range(middleware) : ~DependsOnStored(m)
  /\ "reader" \in SubscribersOf(subscribers, lastOp.key)
  /\ \E i \in WritesIn(log) :
       /\ log[i].oldValue = log[i].newValue
       /\ log[i].newValue = ChainOutput(Len(middleware), lastOp.key, lastOp.value, log[i].oldValue)
  /\ NotifiesIn(log) = {}

\* The callbacks unsubscribed from key by callbacks invoked before position j of L.
UnsubscribedBefore(L, j, key) ==
  UNION {callbackUnsubscribes(L[i].cb) : i \in {n \in NotifiesIn(L) : n < j /\ L[n].key = key}}

(* C7: once the unsubscribe function of (key, cb) has been called, at top  *)
(* level or from inside a notification round for key, cb is not invoked    *)
(* for key any more (until it subscribes again), and every other callback  *)
(* still subscribed to key is still notified of every change.              *)
C7_UnsubscribedNeverNotified ==
  [][/\ lastOp'.op = "unsubscribe" =>
          /\ lastOp'.cb \notin SubscribersOf(subscribers', lastOp'.key)
          /\ SubscribersOf(subscribers', lastOp'.key)
               = SubscribersOf(subscribers, lastOp'.key) \ {lastOp'.cb}
     /\ \A key \in StoreKeys : \A cb \in Callbacks :
          (cb \notin SubscribersOf(subscribers, key) /\ cb \in SubscribersOf(subscribers', key))
            => (lastOp'.op = "subscribe" /\ lastOp'.key = key /\ lastOp'.cb = cb)
     /\ \A j \in NotifiesIn(log') :
          /\ log'[j].cb \in SubscribersOf(subscribers, log'[j].key)
          /\ log'[j].cb \notin UnsubscribedBefore(log', j, log'[j].key)
     /\ \A key \in StoreKeys :
          (/\ lastOp'.op \in {"setState", "setMultipleStates"}
           /\ lastOp'.notify
           /\ getState(state, key) # getState(state', key))
            => \A cb \in SubscribersOf(subscribers, key) \cap SubscribersOf(subscribers', key) :
                 Cardinality(NotifiesOf(log', cb, key)) = 1]_vars

\* A round for name in which evictor called reader's unsubscribe function:
\* reader, subscribed after evictor, was not invoked, thrower still was.
C7_Witness ==
  /\ lastOp.op = "setState"
  /\ lastOp.key = "name"
  /\ MapHas(subscribers, "name")
  /\ subscribers["name"] = <<"evictor", "thrower">>
  /\ NotifiesOf(log, "evictor", "name") # {}
  /\ NotifiesOf(log, "thrower", "name") # {}
  /\ NotifiesOf(log, "reader", "name") = {}

(* C8: every value setState or setMultipleStates writes is the output of   *)
(* all registered middleware applied in registration order, each receiving *)
(* the key, the previous output and the value stored before the write; so  *)
(* with only the trimming middleware a padded name is stored trimmed.      *)
C8_StoredIsChainOutput ==
  [][/\ IsReturned(lastOp', "setState") =>
          LET key == lastOp'.key IN
          /\ getState(state', key)
               = ChainOutput(Len(middleware), key, lastOp'.value, getState(state, key))
          /\ (middleware = <<"trim">> /\ lastOp'.value = Str(PaddedAlice))
               => getState(state', key) = Str(Alice)
     /\ IsReturned(lastOp', "setMultipleStates") =>
          \A i \in 1..Len(lastOp'.updates) :
            LET key == lastOp'.updates[i][1] IN
            getState(state', key)
              = ChainOutput(Len(middleware), key, lastOp'.updates[i][2], getState(state, key))
     /\ \A i \in WritesIn(log') : log'[i].newValue = getState(state', log'[i].key)]_vars

\* With trim registered before toggle, writing the padded name over the
\* stored trimmed name stored null: trim ran first, toggle on its output.
C8_Witness ==
  /\ middleware = <<"trim", "toggle">>
  /\ IsReturned(lastOp, "setState")
  /\ lastOp.key = "name"
  /\ lastOp.value = Str(PaddedAlice)
  /\ state["name"] = Null
  /\ \E i \in WritesIn(log) : log[i].oldValue = Str(Alice)

(* C9: when a subscriber of key throws during notification, the write      *)
(* stays applied, every other subscriber of key is still invoked in that   *)
(* round, the call returns normally, and the throwing callback stays       *)
(* subscribed and is invoked again on the next change of key.              *)
C9_ThrowingSubscriberIsolated ==
  /\ [](\A j \in NotifiesIn(log) :
          log[j].threw =>
            /\ lastOp.outcome = "returned"
            /\ getState(state, log[j].key) = log[j].newValue
            /\ log[j].cb \in SubscribersOf(subscribers, log[j].key)
            /\ \A cb \in SubscribersOf(subscribers, log[j].key) :
                 Cardinality(NotifiesOf(log, cb, log[j].key)) = 1)
  /\ [][\A j \in NotifiesIn(log) :
          (/\ log[j].threw
           /\ lastOp'.op \in {"setState", "setMultipleStates"}
           /\ lastOp'.notify
           /\ getState(state', log[j].key) # getState(state, log[j].key))
            => \E n \in NotifiesOf(log', log[j].cb, log[j].key) : log'[n].threw]_vars

\* A round for name in which thrower threw and reader, subscribed after it,
\* was invoked all the same.
C9_Witness ==
  /\ lastOp.op \in {"setState", "setMultipleStates"}
  /\ lastOp.outcome = "returned"
  /\ MapHas(subscribers, "name")
  /\ subscribers["name"] = <<"thrower", "reader">>
  /\ \E i \in NotifiesOf(log, "thrower", "name") : \E j \in NotifiesOf(log, "reader", "name") :
       i < j /\ log[i].threw /\ state["name"] = log[j].newValue

(* C10: setMultipleStates applies no partial update: when the call ends,   *)
(* by returning or by a middleware's exception, either every key of        *)
(* updates has been written or none has.                                   *)
C10_AllOrNothing ==
  lastOp.op = "setMultipleStates" =>
    \/ {log[i].key : i \in WritesIn(log)} = KeysOf(lastOp.updates)
    \/ {log[i].key : i \in WritesIn(log)} = {}

-----------------------------------------------------------------------------
\* The last call a loader operation appended.
LastCall(s) == s.calls[Len(s.calls)]

\* The loader's four collections.
Bookkeeping(s) == <<s.loadedModules, s.pendingLoads, s.failedLoads, s.retryCount>>

(* C11: every change of an allow-listed key made by setState or by         *)
(* setMultipleStates, with notify true or false, leaves the JSON text of   *)
(* the new value in the key's localStorage item when the call returns;     *)
(* keys outside the allow-list never get an item.                          *)
C11_ChangePersisted ==
  [][(IsReturned(lastOp', "setState") \/ IsReturned(lastOp', "setMultipleStates")) =>
       /\ \A i \in WritesIn(log') :
            (log'[i].key \in autoSaveKeys /\ log'[i].newValue # log'[i].oldValue) =>
              /\ MapHas(localStorage', itemName(log'[i].key))
              /\ localStorage'[itemName(log'[i].key)] =
                   JSONstringify(getState(state', log'[i].key))
       /\ \A key \in StoreKeys \ autoSaveKeys :
            ~MapHas(localStorage', itemName(key))]_vars

(* C12: once a name is in loadedModules it stays there with the same       *)
(* contents in every later state, cleanup() included, and every later      *)
(* loadModule of it returns the cached module without invoking the         *)
(* importer, whatever its condition.                                       *)
C12_LoadedIsPermanent ==
  [][\A name \in ModuleNames :
       MapHas(loadedModules, name) =>
         /\ MapHas(loadedModules', name)
         /\ loadedModules'[name] = loadedModules[name]
         /\ LoaderInvocations(name)' = LoaderInvocations(name)
         /\ \A i \in NewCalls :
              (calls'[i].name = name /\ calls'[i].kind # "exceeded") =>
                calls'[i] = Call(name, "cached", 0, "module")]_vars

\* A load answered from the cache after the only import of its name.
C12_Witness ==
  \E i \in 1..Len(calls) :
    /\ calls[i].kind = "cached"
    /\ calls[i].result = "module"
    /\ MapHas(loadedModules, calls[i].name)
    /\ LoaderInvocations(calls[i].name) = 1

(* C13: retryModule(name) in any state of the loader.  Name not in         *)
(* failedLoads: exactly loadModule(name).  Name in failedLoads with fewer  *)
(* than MAX_RETRIES retries: name leaves failedLoads, retryCount is        *)
(* unchanged and a load is attempted (a new import unless the name is      *)
(* loaded or pending).  MAX_RETRIES reached: null, no import, and the four *)
(* collections unchanged.                                                  *)
C13_RetryModule ==
  \A name \in ModuleNames :
    LET s == LoaderState
        r == retryModule(s, name)
    IN /\ Len(r.calls) = Len(calls) + 1
       /\ name \notin failedLoads => r = loadModule(s, name, TRUE)
       /\ (name \in failedLoads /\ Retries(s, name) < MAX_RETRIES) =>
            /\ r.failedLoads = failedLoads \ {name}
            /\ r.retryCount = retryCount
            /\ r.loadedModules = loadedModules
            /\ IF MapHas(loadedModules, name)
                 THEN LastCall(r).kind = "cached" /\ r.imports = imports
                                                /\ r.pendingLoads = pendingLoads
               ELSE IF MapHas(pendingLoads, name)
                 THEN LastCall(r).kind = "joined" /\ r.imports = imports
                                                /\ r.pendingLoads = pendingLoads
               ELSE /\ LastCall(r) = Call(name, "fetch", Len(imports) + 1, "pending")
                    /\ r.imports = Append(imports, dynamicImport(name))
                    /\ r.pendingLoads = MapSet(pendingLoads, name, Len(imports) + 1)
       /\ (name \in failedLoads /\ Retries(s, name) >= MAX_RETRIES) =>
            /\ LastCall(r).result = "null"
            /\ LastCall(r).imp = 0
            /\ r.imports = imports
            /\ Bookkeeping(r) = Bookkeeping(s)

\* A retryModule call refused after MAX_RETRIES failures of its name.
C13_Witness ==
  \E i \in 1..Len(calls) :
    /\ calls[i].kind = "exceeded"
    /\ calls[i].result = "null"
    /\ calls[i].name \in failedLoads
    /\ Retries(LoaderState, calls[i].name) = MAX_RETRIES
    /\ LoaderInvocations(calls[i].name) <= MAX_RETRIES

(* C14: loadModule(name, condition) with name neither loaded nor pending   *)
(* and a false condition returns null, creates no import promise and       *)
(* leaves loadedModules, pendingLoads, failedLoads and retryCount as they  *)
(* were.                                                                   *)
C14_FalseConditionNoEffect ==
  \A name \in ModuleNames :
    (~MapHas(loadedModules, name) /\ ~MapHas(pendingLoads, name)) =>
      LET r == loadModule(LoaderState, name, FALSE)
      IN /\ r.calls = Append(calls, LastCall(r))
         /\ LastCall(r).result = "null"
         /\ LastCall(r).imp = 0
         /\ r.imports = imports
         /\ Bookkeeping(r) = Bookkeeping(LoaderState)

\* A load refused by its condition for a name whose earlier load failed.
C14_Witness ==
  \E i \in 1..Len(calls) :
    /\ calls[i].kind = "condition"
    /\ calls[i].result = "null"
    /\ \E j \in 1..(i - 1) : calls[j].name = calls[i].name /\ calls[j].kind = "fetch"
    /\ calls[i].name \in failedLoads
    /\ ~MapHas(loadedModules, calls[i].name)

(* C16: a route, viewport or interaction load never settles with an error, *)
(* also when the load of one of its modules fails or when it joined a      *)
(* load that was already in flight and then failed.                        *)
C16_BatchesTolerateFailure ==
  \A b \in 1..Len(batches) : BatchOutcome(batches[b]) # "rejected"

\* The preload batches of the run.
Preloads == {b \in 1..Len(batches) : batches[b].op = "preload"}

\* Every call of batch b has settled: it needed no import, or its import
\* promise is no longer in flight.
MembersSettled(b) ==
  \A i \in batches[b].members :
    /\ calls[i].result # "pending"
    /\ calls[i].imp # 0 => imports[calls[i].imp].status # "inflight"

(* C15: preloadCriticalModules loads the four critical modules; its        *)
(* promise never rejects, is resolved only when the load of every critical *)
(* module has settled, and, every import in flight eventually settling,    *)
(* is eventually resolved.                                                 *)
C15_PreloadCompletes ==
  /\ [](\A b \in Preloads :
          /\ {calls[i].name : i \in batches[b].members} = Range(criticalModules)
          /\ BatchOutcome(batches[b]) # "rejected"
          /\ BatchOutcome(batches[b]) = "resolved" => MembersSettled(b)
          /\ MembersSettled(b) => BatchOutcome(batches[b]) = "resolved")
  /\ \A b \in 1..MaxBatches :
       (b \in Preloads) ~> (b \in Preloads /\ BatchOutcome(batches[b]) = "resolved")

\* A completed preload one of whose loads failed after its import was
\* started by the preload and another after joining an earlier load.
C15_Witness ==
  \E b \in Preloads :
    /\ BatchOutcome(batches[b]) = "resolved"
    /\ \E i \in batches[b].members : calls[i].kind = "joined" /\ calls[i].result = "rejected"
    /\ \E i \in batches[b].members : calls[i].kind = "fetch" /\ calls[i].result = "null"
    /\ \E i \in batches[b].members : calls[i].result = "module"

-----------------------------------------------------------------------------
(* Observations on the event manager.                                      *)

\* The entries of history named eventName, in the order of the history.
EntriesFor(history, eventName) == SelectSeq(history, LAMBDA entry : entry.name = eventName)

\* view holds the first entries of the sequence matching, in its order.
IsPrefix(view, matching) ==
  /\ Len(view) <= Len(matching)
  /\ \A i \in 1..Len(view) : view[i] = matching[i]

\* The functions the DOM has registered on target for eventName.
RegisteredOn(et, target, eventName) == Range(et[<<target, eventName>>])

\* The registrations the listeners registry holds for eventName.
RegistryFor(ls, eventName) == IF MapHas(ls, eventName) THEN Range(ls[eventName]) ELSE {}

(* C17: the history never holds more than maxHistorySize entries and is    *)
(* ordered most recent first; an emit puts its entry in front and, when    *)
(* the history was full, drops exactly the oldest entry; getHistory and    *)
(* getHistoryFor return the newest matching entries first (as many as a    *)
(* non-negative limit allows) and leave the history unchanged.             *)
C17_BoundedHistory ==
  /\ [](/\ Len(eventHistory) <= maxHistorySize
        /\ \A i, j \in 1..Len(eventHistory) :
             i < j => eventHistory[i].timestamp > eventHistory[j].timestamp)
  /\ [][(emitted' # emitted /\ busOp'.result = "event") =>
          /\ Len(eventHistory') =
               (IF Len(eventHistory) < maxHistorySize THEN Len(eventHistory) + 1
                                                      ELSE maxHistorySize)
          /\ eventHistory'[1].name = busOp'.name
          /\ \A i \in 2..Len(eventHistory') : eventHistory'[i] = eventHistory[i - 1]]_vars
  /\ [][busOp'.op \in {"getHistory", "getHistoryFor"} =>
          LET matching == IF busOp'.op = "getHistory" THEN eventHistory
                          ELSE EntriesFor(eventHistory, busOp'.name)
          IN /\ eventHistory' = eventHistory
             /\ IsPrefix(busOp'.view, matching)
             /\ busOp'.limit >= 0 =>
                  Len(busOp'.view) = (IF busOp'.limit < Len(matching) THEN busOp'.limit
                                                                      ELSE Len(matching))]_vars

\* The history is full, its oldest entries were dropped, and getHistoryFor
\* returned the ten newest entries of a name.
C17_Witness ==
  /\ emitted > maxHistorySize + 1
  /\ Len(eventHistory) = maxHistorySize
  /\ eventHistory[maxHistorySize].timestamp = emitted - maxHistorySize + 1
  /\ busOp.op = "getHistoryFor"
  /\ Len(busOp.view) = 10
  /\ busOp.view[1].timestamp = emitted

C19_OnceDeregisters ==
  \A id \in 1..Len(registrations) :
    LET reg == registrations[id] IN
    reg.handler.wrap # 0 =>
      /\ Invocations(invoked, reg.handler) <= 1
      /\ Invocations(invoked, reg.handler) = 1 =>
           /\ reg.handler \notin RegisteredOn(eventTargets, reg.target, reg.name)
           /\ \A l \in RegistryFor(listeners, reg.name) : l.id # id

(* C20: off(name) removes every handler registered for name from its       *)
(* target and removes name from the listeners registry, leaving the        *)
(* registrations of other names as they were; a handler on a target always *)
(* has a registry entry and emit calls only handlers that are on a target, *)
(* so later emits of name call none of the removed handlers.               *)
C20_OffDeregisters ==
  /\ [](\A target \in Targets, eventName \in EventNames :
          \A fn \in RegisteredOn(eventTargets, target, eventName) :
            \E l \in RegistryFor(listeners, eventName) : l.handler = fn /\ l.target = target)
  /\ [][busOp'.op = "off" =>
          /\ ~MapHas(listeners', busOp'.name)
          /\ \A l \in RegistryFor(listeners, busOp'.name) :
               l.handler \notin RegisteredOn(eventTargets', l.target, busOp'.name)
          /\ \A other \in EventNames \ {busOp'.name} :
               /\ MapHas(listeners', other) = MapHas(listeners, other)
               /\ RegistryFor(listeners', other) = RegistryFor(listeners, other)
               /\ \A target \in Targets :
                    eventTargets'[<<target, other>>] = eventTargets[<<target, other>>]]_vars
  /\ [][emitted' # emitted =>
          \A i \in 1..Len(busOp'.delivered) :
            busOp'.delivered[i].fn \in
              RegisteredOn(eventTargets, busOp'.delivered[i].node, busOp'.name)]_vars

\* After off("x") removed handlers from two targets, an emit of x to the
\* lower target called nobody, and the handler of y is still registered.
C20_Witness ==
  /\ busOp.op = "emit"
  /\ busOp.name = "x"
  /\ busOp.target = "form"
  /\ busOp.result = "event"
  /\ busOp.delivered = <<>>
  /\ ~MapHas(listeners, "x")
  /\ \A target \in Targets : \E id \in 1..Len(registrations) :
       registrations[id].name = "x" /\ registrations[id].target = target
  /\ \E l \in RegistryFor(listeners, "y") :
       l.handler \in RegisteredOn(eventTargets, l.target, "y")

-----------------------------------------------------------------------------
\* The imports of name that are in a given status.
ImportsOf(imps, name, status) ==
  {d \in 1..Len(imps) : imps[d].name = name /\ imps[d].status = status}

(* C29: in every reachable state, under every interleaving of loadModule,  *)
(* retryModule, cleanup and import completions, no module name is a key of *)
(* both loadedModules and pendingLoads.                                    *)
C29_LoadedNotPending ==
  \A name \in ModuleNames : ~(MapHas(loadedModules, name) /\ MapHas(pendingLoads, name))

\* A name got loaded while a second import of it, started after a cleanup,
\* is still in flight.
C29_Witness ==
  \E name \in ModuleNames :
    /\ MapHas(loadedModules, name)
    /\ ImportsOf(imports, name, "inflight") # {}
    /\ ImportsOf(imports, name, "fulfilled") # {}
    /\ ~MapHas(pendingLoads, name)

(* C30: in every step retryCount[name] either stays as it is, or grows by  *)
(* exactly one in a step in which one import of name rejects, or loses its *)
(* entry in a step in which one import of name fulfils; a rejecting import *)
(* always adds one, a fulfilling import always removes the entry together  *)
(* with the name's pendingLoads and failedLoads entries; so retryModule    *)
(* and cleanup never change it.                                            *)
C30_RetryCountChanges ==
  [][\A name \in ModuleNames :
       LET rejectedNow == ImportsOf(imports', name, "rejected") \ ImportsOf(imports, name, "rejected")
           fulfilledNow == ImportsOf(imports', name, "fulfilled") \ ImportsOf(imports, name, "fulfilled")
           before == Retries(LoaderState, name)
           after == Retries(LoaderState', name)
       IN /\ rejectedNow # {} => (after = before + 1 /\ MapHas(retryCount', name))
          /\ fulfilledNow # {} =>
               /\ ~MapHas(retryCount', name)
               /\ ~MapHas(pendingLoads', name)
               /\ name \notin failedLoads'
          /\ (rejectedNow = {} /\ fulfilledNow = {}) =>
               /\ MapHas(retryCount', name) = MapHas(retryCount, name)
               /\ after = before]_vars

\* A retryModule call started a new import of a name that had failed
\* before, and cleanup ran, with the name's count still what the failures
\* made it.
C30_Witness ==
  \E name \in ModuleNames :
    /\ MapHas(retryCount, name)
    /\ retryCount[name] = Cardinality(ImportsOf(imports, name, "rejected"))
    /\ retryCount[name] >= 1
    /\ name \notin failedLoads
    /\ ImportsOf(imports, name, "inflight") # {}
    /\ ~MapHas(pendingLoads, name)

(* C28: reset() leaves exactly the initial fields, each with its default   *)
(* (currentLanguage the default language, darkMode and drawerOpen false,   *)
(* the viewport fields as the window gives them), so fields added later    *)
(* are gone, and leaves no subscription; every                             *)
(* callback a write invokes is subscribed when the write starts, so a      *)
(* write after reset invokes no callback subscribed before the reset.      *)
C28_ResetRestoresDefaults ==
  /\ [][lastOp'.op = "reset" =>
          /\ DOMAIN state' = {"currentLanguage", "darkMode", "drawerOpen"} \cup ViewportKeys
          /\ \A i \in 1..3 : getState(state', viewportUpdates(window')[i][1])
                                = viewportUpdates(window')[i][2]
          /\ getState(state', "currentLanguage") = Str(<<"f", "r">>)
          /\ getState(state', "darkMode") = Bool("false")
          /\ getState(state', "drawerOpen") = Bool("false")
          /\ \A key \in StoreKeys : SubscribersOf(subscribers', key) = {}
          /\ DOMAIN subscribers' = {}]_vars
  /\ [][\A j \in NotifiesIn(log') :
          log'[j].cb \in SubscribersOf(subscribers, log'[j].key)]_vars

\* A reset after darkMode had been switched on and saved: the field is back
\* to false and nobody is subscribed.
C28_Witness ==
  /\ lastOp.op = "reset"
  /\ getState(state, "darkMode") = Bool("false")
  /\ ~MapHas(state, "name")
  /\ DOMAIN subscribers = {}
  /\ MapHas(localStorage, itemName("darkMode"))
  /\ localStorage[itemName("darkMode")] = JSONstringify(Bool("true"))

-----------------------------------------------------------------------------
\* The step left the manager's fields and the DOM as b has them and
\* returned what b returned.
BusBecomes(b) ==
  /\ listeners' = b.listeners
  /\ eventHistory' = b.eventHistory
  /\ eventTargets' = b.eventTargets
  /\ invoked' = b.invoked
  /\ busOp'.result = b.result
  /\ busOp'.outcome = b.outcome
  /\ busOp'.delivered = b.delivered

(* C21: each operation of a channel does to the one listeners registry,    *)
(* the one history and the targets exactly what the bus operation does for *)
(* the name namespace:eventName; an event emitted through the channel is   *)
(* the newest history entry under the prefixed name and is delivered to    *)
(* the handlers registered for the prefixed name, those registered         *)
(* directly on the bus included.                                           *)
C21_ChannelIsNamingView ==
  [][\A namespace \in Namespaces :
       LET name == Prefixed(namespace, busOp'.name)
           id == Len(registrations) + 1
       IN /\ busOp'.op = "channel.emit" =>
               /\ BusBecomes(emit(Bus, name, Null, busOp'.target, emitted + 1))
               /\ eventHistory'[1].name = name
               /\ \A fn \in RegisteredOn(eventTargets, busOp'.target, name) :
                    \E k \in 1..Len(busOp'.delivered) :
                      busOp'.delivered[k] = [fn |-> fn, node |-> busOp'.target]
          /\ busOp'.op = "channel.on" =>
               /\ BusBecomes(on(Bus, name, registrations'[id].handler, busOp'.target, id))
               /\ registrations'[id].handler \in RegisteredOn(eventTargets', busOp'.target, name)
          /\ busOp'.op = "channel.once" =>
               BusBecomes(once(Bus, name, registrations'[id].handler.fn, busOp'.target, id))
          /\ busOp'.op = "channel.off" =>
               /\ BusBecomes(off(Bus, name))
               /\ ~MapHas(listeners', name)]_vars

\* An event emitted through the channel reached a handler registered
\* directly on the bus under the prefixed name.
C21_Witness ==
  /\ busOp.op = "channel.emit"
  /\ busOp.result = "event"
  /\ eventHistory[1].name = Prefixed("ui", "x")
  /\ \E id \in 1..Len(registrations) :
       /\ registrations[id].name = Prefixed("ui", "x")
       /\ registrations[id].target = "window"
       /\ \E k \in 1..Len(busOp.delivered) : busOp.delivered[k].fn = registrations[id].handler
  /\ \E id \in 1..Len(registrations) : registrations[id].name = "x"

\* Every listener list of the DOM is empty.
NoHandlerOnAnyTarget(et) == \A k \in DOMAIN et : et[k] = <<>>

(* C22: destroy() leaves no handler on any target for any event name, an   *)
(* empty listeners registry and an empty history; a handler gets onto a    *)
(* target only through a later on/once, and emit calls only handlers that  *)
(* are on a target, so no handler registered before destroy, unfired       *)
(* once-handlers included, is called by an emit made after it.             *)
C22_DestroyTearsDown ==
  /\ [][busOp'.op = "destroy" =>
          /\ NoHandlerOnAnyTarget(eventTargets')
          /\ DOMAIN listeners' = {}
          /\ eventHistory' = <<>>]_vars
  /\ [][\A k \in DOMAIN eventTargets :
          \A fn \in Range(eventTargets'[k]) \ Range(eventTargets[k]) :
            /\ busOp'.op \in {"on", "once"}
            /\ registrations'[Len(registrations')].handler = fn
            /\ Len(registrations') = Len(registrations) + 1]_vars
  /\ [][emitted' # emitted =>
          \A i \in 1..Len(busOp'.delivered) :
            \E fn \in RegisteredOn(eventTargets, busOp'.delivered[i].node, busOp'.name) :
              busOp'.delivered[i].fn = fn]_vars

\* destroy() ran after an emit, with a once-handler registered that had not
\* fired: nothing is left on the targets or in the history.
C22_Witness ==
  /\ busOp.op = "destroy"
  /\ emitted >= 1
  /\ eventHistory = <<>>
  /\ DOMAIN listeners = {}
  /\ NoHandlerOnAnyTarget(eventTargets)
  /\ \E id \in 1..Len(registrations) :
       /\ registrations[id].handler.wrap # 0
       /\ Invocations(invoked, registrations[id].handler) = 0
  /\ \E id \in 1..Len(registrations) : registrations[id].handler.wrap = 0

-----------------------------------------------------------------------------
(* StorageUtils and PerformanceUtils.                                       *)

\* The step is a StorageUtils call named op.
StorageStep(op) == clock' = clock /\ storageOp'.op = op

\* C23: getVersioned(key, expectedVersion, default) returns the data that
\* setVersioned(key, data, version) wrote when version equals
\* expectedVersion; when the stored version differs it returns the default
\* and discards the entry, so a later read with the stored version returns
\* the default too.
C23_VersionedRoundTrip ==
  [][StorageStep("setVersioned") /\ storageOp'.result = Bool("true") =>
       \A expectedVersion \in Versions :
         LET read == getVersioned(items', storageOp'.key, expectedVersion, Default, clock')
             later_read == getVersioned(read.items, storageOp'.key, storageOp'.version,
                                        Default, clock')
         IN  IF expectedVersion = storageOp'.version
             THEN read.result = storageOp'.value
             ELSE /\ read.result = Default
                  /\ ~has(read.items, storageOp'.key)
                  /\ later_read.result = Default]_vars

\* JSON.parse(JSON.stringify(value)) is equal to value.
Faithful(value) == primitive(literal(value)) = value

\* The three parts of C24 for the values in a set: what get and has return
\* after a set that succeeded, has on a key never set, get and has after
\* remove.
SetGetHasRemove(values) ==
  clock' = clock =>
       /\ (storageOp'.op = "set" /\ storageOp'.result = Bool("true")
             /\ storageOp'.value \in values) =>
            /\ get(items', storageOp'.key, Null, clock').result = storageOp'.value
            /\ has(items', storageOp'.key)
       /\ \A key \in StorageKeys :
            (~has(items, key) /\ has(items', key)) =>
              storageOp'.op \in {"set", "setVersioned"} /\ storageOp'.key = key
       /\ storageOp'.op = "remove" =>
            /\ get(items', storageOp'.key, Null, clock').result = Null
            /\ ~has(items', storageOp'.key)

\* C24 (as stated): for any key and value, after set(key, value) succeeds
\* get(key) returns an equal value and has(key) is true; has is false for a
\* key never set; after remove(key), get(key) returns null and has(key) is
\* false.
C24_AnyValueRoundTrips == [][SetGetHasRemove(StorageValues)]_vars

\* C24 (amended): the same, for any key and any value that JSON
\* serialisation reproduces.
C24_FaithfulValueRoundTrips ==
  [][SetGetHasRemove({v \in StorageValues : Faithful(v)})]_vars

\* A value was set and read back as written, the key is there, and the
\* other key never was.
C24_Witness ==
  /\ storageOp.op = "get"
  /\ storageOp.key = "test"
  /\ storageOp.result = Str(<<"a">>)
  /\ has(items, "test")
  /\ ~has(items, "non-existent")

\* The last call made to the debounced function before execution e.
CallBefore(d, e) == d.calls[e.call]

\* C25: in non-immediate mode, fn is never executed before wait has elapsed
\* after the last call; after the last call of a burst it is executed
\* exactly once, with the arguments of that call.
C25_DebounceRunsOnceAfterBurst ==
  /\ [](~debounced.immediate =>
          \A i \in 1..Len(debounced.executed) :
            LET e == debounced.executed[i] IN
            /\ e.at >= CallBefore(debounced, e).at + debounced.wait
            /\ e.args = CallBefore(debounced, e).args
            /\ \A j \in 1..Len(debounced.executed) :
                 debounced.executed[j].call = e.call => j = i)
  /\ \A n \in 1..MaxBurst :
       (~debounced.immediate /\ Len(debounced.calls) = n)
         ~> (\E i \in 1..Len(debounced.executed) : debounced.executed[i].call >= n)

\* A burst of three calls at two different times ran fn once, after the last.
C25_Witness ==
  /\ ~debounced.immediate
  /\ Len(debounced.calls) = 3
  /\ debounced.calls[1].at < debounced.calls[3].at
  /\ debounced.calls[1].args # debounced.calls[3].args
  /\ Len(debounced.executed) = 1
  /\ debounced.executed[1].call = 3

\* The calls before call i on which fn ran.
RanBefore(t, i) == {j \in 1..(i - 1) : t.calls[j].ran}

\* The last call before call i on which fn ran.
LastRan(t, i) == t.calls[CHOOSE j \in RanBefore(t, i) : \A k \in RanBefore(t, i) : k <= j]

\* fn runs on the first call, and never on a call made before limit has
\* elapsed since the last call it ran on.
RunsFirstAndIgnoresEarly(t) ==
  \A i \in 1..Len(t.calls) :
    /\ RanBefore(t, i) = {} => t.calls[i].ran
    /\ (RanBefore(t, i) # {} /\ t.calls[i].at < LastRan(t, i).at + t.limit) => ~t.calls[i].ran

\* C26 (as stated): fn runs on the first call, on no call made before limit
\* has elapsed since the last executed call, and on the first call made
\* after limit has elapsed.
C26_RunsAfterLimit ==
  /\ RunsFirstAndIgnoresEarly(throttled)
  /\ \A i \in 1..Len(throttled.calls) :
       (RanBefore(throttled, i) # {}
          /\ throttled.calls[i].at > LastRan(throttled, i).at + throttled.limit)
         => throttled.calls[i].ran

\* C26 (amended): fn runs on the first call, on no call made before limit
\* has elapsed since the last executed call, and on the first call made
\* after the timer that the last executed call set has run.
C26_RunsAfterTimer ==
  /\ RunsFirstAndIgnoresEarly(throttled)
  /\ \A i \in 1..Len(throttled.calls) :
       (RanBefore(throttled, i) # {}
          /\ throttled.calls[i].resets = Cardinality(RanBefore(throttled, i)))
         => throttled.calls[i].ran

\* fn ran on the first call, not on the second, and again on the third.
C26_Witness ==
  /\ Len(throttled.calls) = 3
  /\ throttled.calls[1].ran
  /\ ~throttled.calls[2].ran
  /\ throttled.calls[3].ran

\* The step is a call on the cache named op.
CacheStep(op) == clock' = clock /\ cacheOp'.op = op

\* C27: get(key) returns the value last set for key while it has not
\* expired; get(key, defaultValue) returns defaultValue for an absent key;
\* stats() reports exactly the keys stored; after clear() every get returns
\* null.
C27_CacheContract ==
  [][/\ CacheStep("set") =>
          \A t \in clock'..MaxTime :
            t <= clock' + cache'.ttl =>
              cacheGet(cache', cacheOp'.key, t).result = cacheOp'.value
     /\ (CacheStep("get") /\ ~MapHas(cache.entries, cacheOp'.key)) =>
          cacheOp'.result = cacheOp'.value
     /\ CacheStep("stats") => cacheOp'.result.entries = DOMAIN cache.entries
     /\ CacheStep("clear") =>
          \A key \in CacheKeys : cacheGet(cache', key, clock').result = Null]_vars

-----------------------------------------------------------------------------
(* C31: while the import that pendingLoads holds for a name stays          *)
(* unsettled, the name stays in pendingLoads with that import, and every    *)
(* loadModule(name) made meanwhile joins it without invoking the importer.  *)
C31_UnsettledStaysPending ==
  [][\A name \in ModuleNames :
       (/\ MapHas(pendingLoads, name)
        /\ imports[pendingLoads[name]].status = "inflight"
        /\ imports'[pendingLoads[name]].status = "inflight")
         => /\ MapHas(pendingLoads', name)
            /\ pendingLoads'[name] = pendingLoads[name]
            /\ LoaderInvocations(name)' = LoaderInvocations(name)
            /\ \A i \in NewCalls :
                 calls'[i].name = name
                   => calls'[i].kind = "joined" /\ calls'[i].imp = pendingLoads[name]]_vars

(* C34: in every reachable state retryCount[name] is at most MAX_RETRIES,   *)
(* and no importer is invoked for a name whose retryCount has reached       *)
(* MAX_RETRIES, under every interleaving of loadModule, retryModule,        *)
(* cleanup and import completions.                                          *)
C34_RetryCountBounded ==
  /\ [](\A name \in ModuleNames : Retries(LoaderState, name) <= MAX_RETRIES)
  /\ [][\A name \in ModuleNames :
          Retries(LoaderState, name) >= MAX_RETRIES
            => LoaderInvocations(name)' = LoaderInvocations(name)]_vars

(* C36: a handler registered with once is invoked at most once over any     *)
(* sequence of emits of its event, even if its first invocation throws.     *)
C36_OnceRunsAtMostOnce ==
  \A id \in 1..Len(registrations) :
    registrations[id].handler.wrap # 0
      => Invocations(invoked, registrations[id].handler) <= 1

\* The emit being made recorded its event as the newest history entry.
RecordedNewest ==
  /\ eventHistory' # <<>>
  /\ eventHistory'[1].name = busOp'.name
  /\ eventHistory'[1].timestamp = emitted'
  /\ Tail(eventHistory') = SubSeq(eventHistory, 1, Len(eventHistory') - 1)

\* The emit being made left listeners and targets as they were, and called
\* no handler.
NothingDispatched ==
  /\ listeners' = listeners
  /\ eventTargets' = eventTargets
  /\ invoked' = invoked

(* C37 (as stated): an emit that returns null, because construction or      *)
(* dispatch failed, leaves the bus unchanged and records no history entry;  *)
(* an emit that calls a handler has its event as the newest history entry.  *)
C37_FailedEmitLeavesNoTrace ==
  [][emitted' # emitted =>
       /\ busOp'.result = "null" => NothingDispatched /\ eventHistory' = eventHistory
       /\ busOp'.delivered # <<>> => RecordedNewest]_vars

(* C37 (amended): an emit that returns null because construction failed     *)
(* leaves the bus unchanged; one that returns null because dispatch failed  *)
(* has recorded its history entry and changed nothing else; an emit that    *)
(* calls a handler has its event as the newest history entry.               *)
C37_FailedDispatchIsRecorded ==
  [][emitted' # emitted =>
       /\ (busOp'.result = "null" /\ busOp'.name = SymbolName)
            => NothingDispatched /\ eventHistory' = eventHistory
       /\ (busOp'.result = "null" /\ busOp'.name # SymbolName)
            => NothingDispatched /\ RecordedNewest /\ busOp'.target \notin Targets
       /\ busOp'.delivered # <<>> => RecordedNewest]_vars

\* An emit to a missing target returned null and its event heads the history.
C37_Witness ==
  /\ busOp.op = "emit"
  /\ busOp.result = "null"
  /\ busOp.target = NoTarget
  /\ eventHistory # <<>>
  /\ eventHistory[1].name = busOp.name
  /\ eventHistory[1].timestamp = emitted

\* The last notification of cb for key in log L.
LastNotify(L, cb, key) ==
  L[CHOOSE i \in NotifiesOf(L, cb, key) : \A j \in NotifiesOf(L, cb, key) : j <= i]

(* C32: whenever a top-level setState or setMultipleStates call returns,    *)
(* the value most recently delivered to each subscriber of a key equals the *)
(* value stored for that key, also when subscribers called setState, for    *)
(* the same key or another, during the round.                               *)
C32_LastDeliveredIsStored ==
  [][(IsReturned(lastOp', "setState") \/ IsReturned(lastOp', "setMultipleStates")) =>
       \A key \in StoreKeys : \A cb \in SubscribersOf(subscribers', key) :
         NotifiesOf(log', cb, key) # {}
           => LastNotify(log', cb, key).newValue = getState(state', key)]_vars

(* C33: whenever a top-level setState on an allow-listed key returns, the   *)
(* item persisted for the key holds the value stored in state for it, also  *)
(* when a subscriber wrote the same key during the notification.            *)
C33_PersistedIsStored ==
  [][(IsReturned(lastOp', "setState") /\ lastOp'.key \in autoSaveKeys) =>
       /\ MapHas(localStorage', itemName(lastOp'.key))
       /\ localStorage'[itemName(lastOp'.key)] = JSONstringify(getState(state', lastOp'.key))]_vars

(* C35: the unsubscribe function that subscribe(key, cb) returned removes   *)
(* only the subscription that created it: called again after cb has been    *)
(* subscribed to key a second time, it leaves that subscription in place    *)
(* and cb is notified of the next change of key.                            *)
C35_StaleUnsubscribeIsHarmless ==
  [][lastOp'.op = "subscribe" =>
       LET key == lastOp'.key
           cb == lastOp'.cb
           first_call == unsubscribe(subscribers', key, cb)
           resubscribed == subscribe(first_call, key, cb)
           second_call == unsubscribe(resubscribed, key, cb)
           round == notifySubscribers([StoreState EXCEPT !.subscribers = second_call],
                                      key, Null, getState(state', key))
       IN /\ cb \in SubscribersOf(second_call, key)
          /\ NotifiesOf(round.log, cb, key) # {}]_vars
\* The names of the loadModule calls a step makes, in call order.
NewNames == [i \in 1..(Len(calls') - Len(calls)) |-> calls'[Len(calls) + i].name]

(* C40: when the timer of prefetchForPage(nextPage) fires, the loader loads *)
(* the modules mapped to nextPage's page, and makes no load at all when    *)
(* the window is already on that page.                                     *)
C40_PrefetchLoadsNextPage ==
  [][Len(prefetches') < Len(prefetches) =>
       IF pageNameOf(window.pathname) = Head(prefetches)
         THEN calls' = calls
         ELSE NewNames = pageModules(Head(prefetches))]_vars
(* C39: init() goes through its phases at most once: however the entry     *)
(* points fire, while an earlier init() is awaiting a phase or after it,    *)
(* the global event listeners are registered at most once and the core     *)
(* modules are initialised at most once.                                   *)
C39_InitRunsOnce == app.listeners <= 1 /\ app.coreInits <= 1
\* The resize dispatched last found no timer pending: it is the first call
\* of the debounced handler since handleResize ran, or the first of all.
FirstOfBurst ==
  Len(debounced.calls) =
    1 + (IF debounced.executed = <<>> THEN 0
         ELSE debounced.executed[Len(debounced.executed)].call)

\* The resize dispatched last changed key in the window, while the
\* application's handler was registered and cb subscribed to key.
ResizeChanged(cb, key) ==
  /\ lastOp.op = "resize"
  /\ debounced.created
  /\ FirstOfBurst
  /\ \E i \in 1..Len(lastOp.updates) : lastOp.updates[i][1] = key
  /\ cb \in SubscribersOf(subscribers, key)

\* handleResize ran last and notified cb of the window's value for key.
ResizeNotified(cb, key) ==
  /\ lastOp.op = "handleResize"
  /\ \E i \in 1..Len(log) :
       /\ log[i].type = "notify"
       /\ log[i].cb = cb
       /\ <<log[i].key, log[i].newValue>> \in Range(viewportUpdates(window))
       /\ log[i].key = key

(* C38: when a resize changes viewportWidth, viewportHeight or isMobile of *)
(* the window while the application's debounced handler is registered, the *)
(* subscribers of that key are eventually notified with the new value,     *)
(* unless the window is resized again before the handler has run.          *)
C38_ResizeNotifiesSubscribers ==
  \A key \in ViewportKeys :
    ResizeChanged("reader", key)
      ~> (ResizeNotified("reader", key) \/ (lastOp.op = "resize" /\ ~FirstOfBurst))

====
